---- MODULE Spec2Model ----
(***************************************************************************)
(* Fields, extrapolations and geometries of PhiFlow.                        *)
(*                                                                          *)
(* A Field couples a Geometry, a value Tensor and an Extrapolation          *)
(* (src/phi/field/_field.py).  Tensors run along named non-channel          *)
(* dimensions (x of a grid, the cells of a mesh, the points of a cloud) and *)
(* hold exact rational numbers, plus the set of names of their channel and  *)
(* dual dimensions.  Every call of the library is one action: it reads the  *)
(* receiver `lhs`, draws its argument `rhs`, and leaves what it returns or  *)
(* raises in `res`.                                                         *)
(***************************************************************************)
EXTENDS Integers, Sequences, FiniteSets, TLC

VARIABLES lhs, rhs, op, res

vars == <<lhs, rhs, op, res>>

(***************************************************************************)
(* Bounds of the model.                                                     *)
(***************************************************************************)
MaxRes == 2        \* largest resolution (number of cells) of a geometry
MaxVal == 0        \* stored sample values are drawn from -1 .. MaxVal
MaxConst == 2      \* constant extrapolations are drawn from -1 .. MaxConst
MaxFactor == 8     \* downsample factors are drawn from 0 .. MaxFactor

Val == -1 .. MaxVal
ConstVal == -1 .. MaxConst

(***************************************************************************)
(* Numbers of the tensor substrate: exact rationals <<n, d>> in lowest      *)
(* terms with d > 0, and the IEEE results of a division by zero             *)
(* (<<1, 0>> = inf, <<-1, 0>> = -inf, <<0, 0>> = nan).                      *)
(***************************************************************************)
Abs(n) == IF n < 0 THEN -n ELSE n

Sign(n) == IF n > 0 THEN 1 ELSE IF n < 0 THEN -1 ELSE 0

RECURSIVE Gcd(_, _)
Gcd(m, n) == IF n = 0 THEN m ELSE Gcd(n, m % n)

Norm(n, d) ==
    IF d = 0 THEN <<Sign(n), 0>>
    ELSE LET g == Gcd(Abs(n), Abs(d))
         IN  <<Sign(d) * (n \div g), Abs(d) \div g>>

Num(i) == <<i, 1>>

IsFinite(q) == q[2] # 0

NumAdd(p, q) == Norm(p[1] * q[2] + q[1] * p[2], p[2] * q[2])

NumSub(p, q) == Norm(p[1] * q[2] - q[1] * p[2], p[2] * q[2])

NumMul(p, q) == Norm(p[1] * q[1], p[2] * q[2])

NumDiv(p, q) == Norm(p[1] * q[2], p[2] * q[1])

NumNeg(p) == <<-p[1], p[2]>>

NumAbs(p) == <<Abs(p[1]), p[2]>>

NumLess(p, q) == p[1] * q[2] < q[1] * p[2]

RECURSIVE IntPow(_, _)
IntPow(p, k) == IF k = 0 THEN Num(1) ELSE NumMul(p, IntPow(p, k - 1))

NumPow(p, q) ==
    IF q[1] >= 0 THEN IntPow(p, q[1]) ELSE NumDiv(Num(1), IntPow(p, -q[1]))

(***************************************************************************)
(* Elementwise operators of the tensor substrate, by the name of the        *)
(* Python operator they implement.                                          *)
(***************************************************************************)
ArithOps == {"add", "sub", "mul", "truediv"}

CompareOps == {"gt", "ge", "lt", "le"}

Bool(b) == IF b THEN Num(1) ELSE Num(0)

NumOp(o, p, q) ==
    CASE o = "add"     -> NumAdd(p, q)
      [] o = "sub"     -> NumSub(p, q)
      [] o = "mul"     -> NumMul(p, q)
      [] o = "truediv" -> NumDiv(p, q)
      [] o = "pow"     -> NumPow(p, q)
      [] o = "gt"      -> Bool(NumLess(q, p))
      [] o = "ge"      -> Bool(~NumLess(p, q))
      [] o = "lt"      -> Bool(NumLess(p, q))
      [] o = "le"      -> Bool(~NumLess(q, p))

NumOp1(o, p) ==
    CASE o = "neg" -> NumNeg(p)
      [] o = "abs" -> NumAbs(p)

(***************************************************************************)
(* Extrapolations.  A constant extrapolation carries its value; periodic,   *)
(* boundary (zero-gradient), symmetric and reflect copy values of the       *)
(* field.  Equality of the records is equality by value.                    *)
(***************************************************************************)
ConstantExtrapolation(q) ==
    [class |-> "Extrapolation", kind |-> "constant", value |-> q]

ZERO == ConstantExtrapolation(Num(0))

ONE == ConstantExtrapolation(Num(1))

PERIODIC == [class |-> "Extrapolation", kind |-> "periodic"]

BOUNDARY == [class |-> "Extrapolation", kind |-> "boundary"]

SYMMETRIC == [class |-> "Extrapolation", kind |-> "symmetric"]

REFLECT == [class |-> "Extrapolation", kind |-> "reflect"]

CopyExtrapolations == {PERIODIC, BOUNDARY, SYMMETRIC, REFLECT}

Extrapolations ==
    {ConstantExtrapolation(Num(c)) : c \in ConstVal} \cup CopyExtrapolations

IncompatibleExtrapolations ==
    [class |-> "Error", kind |-> "IncompatibleExtrapolations"]

IsConstant(e) == e.class = "Extrapolation" /\ e.kind = "constant"

IsCopy(e) == e \in CopyExtrapolations

IsExtrapolation(e) == e.class = "Extrapolation"

(***************************************************************************)
(* The algebra of two extrapolations under + - * /.                         *)
(***************************************************************************)
ExtConstCopy(o, a, b) ==          \* a is constant, b copies
    CASE o \in {"add", "sub"} ->
            IF a = ZERO THEN b ELSE IncompatibleExtrapolations
      [] o = "mul" ->
            IF a = ZERO THEN ZERO
            ELSE IF a = ONE THEN b ELSE IncompatibleExtrapolations
      [] o = "truediv" ->
            IF a = ZERO THEN ZERO ELSE IncompatibleExtrapolations

\* mutant: multiplying a copying rule by constant zero keeps the copying rule
ExtCopyConst_keeping(o, a, b) ==
    CASE o \in {"add", "sub"} ->
            IF b = ZERO THEN a ELSE IncompatibleExtrapolations
      [] o = "mul" ->
            IF b = ZERO \/ b = ONE THEN a ELSE IncompatibleExtrapolations
      [] o = "truediv" ->
            IF b = ONE THEN a ELSE IncompatibleExtrapolations

ExtCopyConst(o, a, b) ==          \* a copies, b is constant
    CASE o \in {"add", "sub"} ->
            IF b = ZERO THEN a ELSE IncompatibleExtrapolations
      [] o = "mul" ->
            IF b = ZERO THEN ZERO
            ELSE IF b = ONE THEN a ELSE IncompatibleExtrapolations
      [] o = "truediv" ->
            IF b = ONE THEN a ELSE IncompatibleExtrapolations

\* mutant: two constants combine with the operands exchanged
ExtOp_exchanged(o, a, b) ==
    IF IsConstant(a) /\ IsConstant(b)
      THEN ConstantExtrapolation(NumOp(o, b.value, a.value))
    ELSE IF IsConstant(a) THEN ExtConstCopy(o, a, b)
    ELSE IF IsConstant(b) THEN ExtCopyConst(o, a, b)
    ELSE IF a = b THEN a
    ELSE IncompatibleExtrapolations

\* mutant: two copying rules of the same kind cannot be divided
ExtOp_nodiv(o, a, b) ==
    IF IsConstant(a) /\ IsConstant(b)
      THEN ConstantExtrapolation(NumOp(o, a.value, b.value))
    ELSE IF IsConstant(a) THEN ExtConstCopy(o, a, b)
    ELSE IF IsConstant(b) THEN ExtCopyConst(o, a, b)
    ELSE IF a = b /\ o # "truediv" THEN a
    ELSE IncompatibleExtrapolations

\* mutant: two different copying rules combine to the left one
ExtOp_left(o, a, b) ==
    IF IsConstant(a) /\ IsConstant(b)
      THEN ConstantExtrapolation(NumOp(o, a.value, b.value))
    ELSE IF IsConstant(a) THEN ExtConstCopy(o, a, b)
    ELSE IF IsConstant(b) THEN ExtCopyConst(o, a, b)
    ELSE a

ExtOp(o, a, b) ==
    IF IsConstant(a) /\ IsConstant(b)
      THEN ConstantExtrapolation(NumOp(o, a.value, b.value))
    ELSE IF IsConstant(a) THEN ExtConstCopy(o, a, b)
    ELSE IF IsConstant(b) THEN ExtCopyConst(o, a, b)
    ELSE IF a = b THEN a
    ELSE IncompatibleExtrapolations

ExtOp1(o, a) ==
    IF IsConstant(a) THEN ConstantExtrapolation(NumOp1(o, a.value)) ELSE a

(***************************************************************************)
(* Results of a call.                                                       *)
(***************************************************************************)
NoResult == [class |-> "None", tag |-> "none"]

Returned(v) == [tag |-> "returned", value |-> v]

Raised(e) == [tag |-> "raised", error |-> e]

ExtResult(e) ==
    IF e = IncompatibleExtrapolations
      THEN Raised("IncompatibleExtrapolations") ELSE Returned(e)

(***************************************************************************)
(* Which boundaries an extrapolation determines.  A constant determines     *)
(* the values on every boundary, periodic determines the upper boundary     *)
(* (it repeats the lower one), the other copying rules determine none.      *)
(***************************************************************************)
is_upper(key) == key \in {"x+", "y+"}

determines_boundary_values(e, key) ==
    IF IsConstant(e) THEN TRUE
    ELSE IF e = PERIODIC THEN is_upper(key)
    ELSE FALSE

(***************************************************************************)
(* Python objects carry their class.  Numbers are exact rationals.          *)
(***************************************************************************)
Number(q) == [class |-> "Number", value |-> q]

bool(b) == [class |-> "bool", value |-> b]

Tuple(qs) == [class |-> "tuple", items |-> qs]

(***************************************************************************)
(* Tensors: the name of the first non-channel dimension ("" for a tensor    *)
(* without one), the further non-channel dimensions with their sizes, the   *)
(* names of the channel and dual dimensions (dual dimensions start with ~;  *)
(* in one spatial dimension vector and ~vector have one item), and the data *)
(* in row-major order of the non-channel dimensions.                        *)
(***************************************************************************)
DualNames == {"~vector", "~neighbors", "~shell"}

Dim(name, size) == [name |-> name, size |-> size]

\* a tensor along at most one non-channel dimension
Tensor(d, names, data) ==
    [class |-> "Tensor", dim |-> d, names |-> names, data |-> data,
     rest |-> <<>>]

RECURSIVE Volume(_)
Volume(dims) ==
    IF dims = <<>> THEN 1 ELSE Head(dims).size * Volume(Tail(dims))

\* the non-channel dimensions of a tensor, in the order of its data
Dims(t) ==
    IF t.dim = "" THEN <<>>
    ELSE <<Dim(t.dim, IF Volume(t.rest) = 0 THEN 0
                      ELSE Len(t.data) \div Volume(t.rest))>> \o t.rest

TensorOver(dims, names, data) ==
    IF dims = <<>> THEN Tensor("", names, data)
    ELSE [class |-> "Tensor", dim |-> Head(dims).name, names |-> names,
          data |-> data, rest |-> Tail(dims)]

DimNamesOf(dims) == {dims[j].name : j \in 1 .. Len(dims)}

HasDim(t, d) == d \in DimNamesOf(Dims(t))

SizeOf(t, d) ==
    LET dims == Dims(t)
    IN  dims[CHOOSE j \in 1 .. Len(dims) : dims[j].name = d].size

wrap(q) == Tensor("", {}, <<q>>)

dual(t) == t.names \cap DualNames

Shape(t) == [dims |-> Dims(t), names |-> t.names]

IncompatibleShapes == [class |-> "Error", kind |-> "IncompatibleShapes"]

IsTensor(t) == t.class = "Tensor"

\* the number of entries of the data that one step along dimension j spans
Stride(dims, j) == Volume(SubSeq(dims, j + 1, Len(dims)))

\* the index along dimension j of entry k (counted from 0) of the data
Coordinate(dims, k, j) == (k \div Stride(dims, j)) % dims[j].size

PositionOf(dims, d) == CHOOSE j \in 1 .. Len(dims) : dims[j].name = d

\* the entry (counted from 0) of a tensor over `own` that entry k of a
\* tensor over `all` is computed from: the same index along every dimension
RECURSIVE Entry(_, _, _, _)
Entry(own, all, k, j) ==
    IF j > Len(own) THEN 0
    ELSE Coordinate(all, k, PositionOf(all, own[j].name)) * Stride(own, j)
            + Entry(own, all, k, j + 1)

\* elementwise operator: the operands are combined by dimension name, the
\* result runs along the dimensions of the first operand followed by those
\* that only the second has; a dimension of both must have one size
TensorOp(o, s, t) ==
    LET ds  == Dims(s)
        dt  == Dims(t)
        all == ds \o SelectSeq(dt, LAMBDA d : d.name \notin DimNamesOf(ds))
    IN  IF \E i \in 1 .. Len(ds), j \in 1 .. Len(dt) :
                ds[i].name = dt[j].name /\ ds[i].size # dt[j].size
          THEN IncompatibleShapes
        ELSE TensorOver(all, s.names \cup t.names,
                        [k \in 1 .. Volume(all) |->
                            NumOp(o, s.data[Entry(ds, all, k - 1, 1) + 1],
                                     t.data[Entry(dt, all, k - 1, 1) + 1])])

TensorOp1(o, t) ==
    [t EXCEPT !.data = [i \in 1 .. Len(t.data) |-> NumOp1(o, t.data[i])]]

\* math.expand by dimension d of size k: the new dimension comes first
expand(t, d, k) ==
    LET dims == Dims(t)
        all  == <<Dim(d, k)>> \o dims
    IN  TensorOver(all, t.names,
                   [i \in 1 .. Volume(all) |->
                       t.data[Entry(dims, all, i - 1, 1) + 1]])

\* close-enough comparison of two tensors of the substrate
always_close(s, t) ==
    LET r == TensorOp("sub", s, t)
    IN  IsTensor(r) /\ \A i \in 1 .. Len(r.data) : r.data[i] = Num(0)

\* the entries of the data along the first dimension, at entry c of a row
Column(t, c) ==
    LET width == Volume(t.rest)
    IN  [i \in 1 .. (IF width = 0 THEN 0 ELSE Len(t.data) \div width) |->
            t.data[(i - 1) * width + c]]

\* math.slice_off: remove the first and/or the last index along the first
\* dimension
slice_off(t, slices) ==
    LET width == Volume(t.rest)
        lo == IF [side |-> "lower"] \in slices THEN width + 1 ELSE 1
        hi == IF [side |-> "upper"] \in slices THEN Len(t.data) - width
                                               ELSE Len(t.data)
    IN  [t EXCEPT !.data = SubSeq(t.data, lo, hi)]

\* the value an extrapolation gives one entry below / above the data
PadValue(e, data, side) ==
    LET k == Len(data)
    IN  CASE IsConstant(e)  -> e.value
          [] e = PERIODIC   -> IF side = "lower" THEN data[k] ELSE data[1]
          [] e = BOUNDARY   -> IF side = "lower" THEN data[1] ELSE data[k]
          [] e = SYMMETRIC  -> IF side = "lower" THEN data[1] ELSE data[k]
          [] e = REFLECT    -> IF side = "lower"
                                 THEN data[IF k > 1 THEN 2 ELSE 1]
                                 ELSE data[IF k > 1 THEN k - 1 ELSE 1]

\* math.pad by one index along the first dimension on the given slices
pad(t, slices, e) ==
    LET width == Volume(t.rest)
        row(side) == [c \in 1 .. width |-> PadValue(e, Column(t, c), side)]
        lo == IF [side |-> "lower"] \in slices THEN row("lower") ELSE <<>>
        hi == IF [side |-> "upper"] \in slices THEN row("upper") ELSE <<>>
    IN  [t EXCEPT !.data = lo \o t.data \o hi]

(***************************************************************************)
(* Geometries: a uniform grid of n cells along x, a mesh of n cells and a   *)
(* cloud of n cylinders.  Grid and mesh have n + 1 faces, the first and the *)
(* last of which lie on a named boundary.                                   *)
(***************************************************************************)
GeometryTypes == {"UniformGrid", "Mesh", "Cylinder"}

Geometry(t, n) == [class |-> "Geometry", type |-> t, n |-> n]

Geometries == {Geometry(t, n) : t \in GeometryTypes, n \in 1 .. MaxRes}

non_channel_dim(g) ==
    CASE g.type = "UniformGrid" -> "x"
      [] g.type = "Mesh"        -> "cells"
      [] g.type = "Cylinder"    -> "points"

face_shape_dual(g) ==
    CASE g.type = "UniformGrid" -> {"~vector"}
      [] g.type = "Mesh"        -> {"~neighbors"}
      [] g.type = "Cylinder"    -> {"~shell"}

has_faces(g) == g.type # "Cylinder"

LowerSlice == [side |-> "lower"]

UpperSlice == [side |-> "upper"]

\* the dictionaries boundary key -> slice of the geometry
boundary_faces(g) ==
    CASE g.type = "UniformGrid" ->
            [k \in {"x-", "x+"} |-> IF k = "x-" THEN LowerSlice ELSE UpperSlice]
      [] g.type = "Mesh" ->
            [k \in {"inlet", "outlet"} |->
                IF k = "inlet" THEN LowerSlice ELSE UpperSlice]
      [] g.type = "Cylinder" -> [k \in {} |-> LowerSlice]

boundary_elements(g) == [k \in {} |-> LowerSlice]

\* dict.values() as a collection, and the dict comprehension of with_boundary
DictValues(d) == {d[k] : k \in DOMAIN d}

Restrict(d, keys) == [k \in keys |-> d[k]]

NotImplementedError == [class |-> "Error", kind |-> "NotImplementedError"]

\* positions of the centers: the cells of a grid or a mesh divide the unit
\* interval, the cylinders of a cloud are placed at the lower ends of these
\* cells
center(g) ==
    IF g.type = "Cylinder" THEN [i \in 1 .. g.n |-> Norm(i - 1, g.n)]
    ELSE [i \in 1 .. g.n |-> Norm(2 * i - 1, 2 * g.n)]

\* positions of the faces; Cylinder.face_centers raises
face_centers(g) ==
    IF g.type = "Cylinder" THEN NotImplementedError
    ELSE [j \in 1 .. g.n + 1 |-> Norm(j - 1, g.n)]

\* slices of a boundary dictionary that the extrapolation determines
DeterminedSlices(slices, e) ==
    {slices[k] : k \in {k \in DOMAIN slices : determines_boundary_values(e, k)}}

\* slice_off_constant_faces on a sequence of per-element data
slice_off_constant_faces(seq, slices, e) ==
    LET lo == IF LowerSlice \in DeterminedSlices(slices, e) THEN 2 ELSE 1
        hi == IF UpperSlice \in DeterminedSlices(slices, e)
                THEN Len(seq) - 1 ELSE Len(seq)
    IN  SubSeq(seq, lo, hi)

(***************************************************************************)
(* Fields (src/phi/field/_field.py).                                        *)
(***************************************************************************)
\* mutant: any dual dimension makes the values staggered
is_staggered_any_dual(values, geometry) == dual(values) # {}

is_staggered(values, geometry) ==
    dual(values) # {} /\ face_shape_dual(geometry) \subseteq dual(values)

\* geometry.faces: the face elements of a geometry, one entry per face
faces(geometry) ==
    IF has_faces(geometry)
      THEN [class |-> "Geometry", type |-> "Faces", of |-> geometry,
            elements |-> [j \in 1 .. geometry.n + 1 |-> j]]
      ELSE NotImplementedError

get_faces(geometry, boundary) ==
    LET f == faces(geometry)
    IN  IF f.class = "Error" THEN f
        ELSE [f EXCEPT !.elements =
                slice_off_constant_faces(f.elements, boundary_faces(geometry),
                                         boundary)]

ValueError(message) ==
    [class |-> "Error", kind |-> "ValueError", message |-> message]

\* the sample points, or the error that is raised
get_sample_points(geometry, at, boundary) ==
    IF at = "center"
      THEN slice_off_constant_faces(center(geometry),
                                    boundary_elements(geometry), boundary)
    ELSE IF at = "face"
      THEN IF geometry.type = "Cylinder" THEN face_centers(geometry)
           ELSE slice_off_constant_faces(face_centers(geometry),
                                         boundary_faces(geometry), boundary)
    ELSE ValueError(at)

as_boundary(obj, geometry) ==
    IF obj.class = "Number" THEN ConstantExtrapolation(obj.value) ELSE obj

MkField(g, v, b) ==
    [class |-> "Field", geometry |-> g, values |-> v, boundary |-> b]

IsField(x) == x.class = "Field"

\* the elements the values of (geometry, values, boundary) are sampled on
SampledElements(geometry, values, boundary) ==
    IF is_staggered(values, geometry)
      THEN get_faces(geometry, boundary) ELSE geometry

NumElements(elements) ==
    IF elements.type = "Faces" THEN Len(elements.elements) ELSE elements.n

\* Field.__init__ for values given as a tensor: the Field, or what is raised
Field(geometry, values, boundary) ==
    IF geometry.class # "Geometry" THEN Raised("AssertionError")
    ELSE
      LET b == as_boundary(boundary, geometry)
          v == IF ~HasDim(values, non_channel_dim(geometry))
                 THEN expand(values, non_channel_dim(geometry), geometry.n)
                 ELSE values
          elements == SampledElements(geometry, v, b)
      IN  IF elements.class = "Error" THEN Raised(elements.kind)
          ELSE IF SizeOf(v, non_channel_dim(geometry)) # NumElements(elements)
            THEN Raised("IncompatibleShapes")
          ELSE Returned(MkField(geometry, v, b))

sampled_elements(f) == SampledElements(f.geometry, f.values, f.boundary)

Field_is_staggered(f) == is_staggered(f.values, f.geometry)

is_centered(f) == ~Field_is_staggered(f)

sampled_at(f) == IF Field_is_staggered(f) THEN "face" ELSE "center"

is_mesh(f) == f.geometry.type = "Mesh"

(***************************************************************************)
(* Resampling of a Field at the sample points of a geometry: linear         *)
(* interpolation between the neighbouring samples of the source, and the    *)
(* source's extrapolation outside of them.                                  *)
(***************************************************************************)
Outside(source, data, side) ==
    IF IsConstant(source.boundary) THEN source.boundary.value
    ELSE IF side = "lower" THEN data[1] ELSE data[Len(data)]

Interpolate(source, p) ==
    LET pts  == get_sample_points(source.geometry, sampled_at(source),
                                  source.boundary)
        data == source.values.data
        k    == Len(data)
    IN  IF k = 0 \/ NumLess(p, pts[1]) THEN Outside(source, data, "lower")
        ELSE IF NumLess(pts[k], p) THEN Outside(source, data, "upper")
        ELSE IF p = pts[k] THEN data[k]
        ELSE LET i == CHOOSE i \in 1 .. k - 1 :
                          ~NumLess(p, pts[i]) /\ NumLess(p, pts[i + 1])
                 w == NumDiv(NumSub(p, pts[i]), NumSub(pts[i + 1], pts[i]))
             IN  NumAdd(data[i],
                        NumMul(w, NumSub(data[i + 1], data[i])))

sample(source, geometry, at, boundary) ==
    LET pts == get_sample_points(geometry, at, boundary)
        names == (source.values.names \ DualNames)
                    \cup (IF at = "face" THEN face_shape_dual(geometry) ELSE {})
    IN  Tensor(non_channel_dim(geometry), names,
               [i \in 1 .. Len(pts) |-> Interpolate(source, pts[i])])

(***************************************************************************)
(* Field.__eq__.  The values of a constructed Field are never None, so the  *)
(* two tests for None are passed over.  always_close raises for values it   *)
(* cannot broadcast.                                                        *)
(***************************************************************************)
__eq__(self, other) ==
    IF ~IsField(other) THEN Returned(bool(FALSE))
    ELSE IF self.geometry.type # other.geometry.type THEN Returned(bool(FALSE))
    ELSE IF self.boundary # other.boundary THEN Returned(bool(FALSE))
    ELSE IF Shape(self.values) = Shape(other.values) THEN Returned(bool(FALSE))
    ELSE IF ~IsTensor(TensorOp("sub", self.values, other.values))
      THEN Raised("IncompatibleShapes")
    ELSE Returned(bool(always_close(self.values, other.values)))

(***************************************************************************)
(* Field.with_values and Field.with_boundary                                *)
(***************************************************************************)
with_values(self, values) == Field(self.geometry, values, self.boundary)

\* dict.values() == dict.values(): two views compare by identity
dict_values_eq(d1, d2) == FALSE

pad_boundary(values, to_add, boundary) == pad(values, DictValues(to_add), boundary)

\* mutant: only the boundary is replaced, the values are kept as stored
with_boundary_values_kept(self, new) ==
    Field(self.geometry, self.values, as_boundary(new, self.geometry))

with_boundary(self, new) ==
    LET boundary == as_boundary(new, self.geometry)
        slices == IF Field_is_staggered(self)
                    THEN boundary_faces(self.geometry)
                    ELSE boundary_elements(self.geometry)
        old_determined_slices ==
            Restrict(slices, {k \in DOMAIN slices :
                                determines_boundary_values(self.boundary, k)})
        new_determined_slices ==
            Restrict(slices, {k \in DOMAIN slices :
                                determines_boundary_values(boundary, k)})
        to_add ==
            Restrict(old_determined_slices,
                     {k \in DOMAIN old_determined_slices :
                        old_determined_slices[k]
                            \notin DictValues(new_determined_slices)})
        to_remove ==
            {sl \in DictValues(new_determined_slices) :
                sl \notin DictValues(old_determined_slices)}
        sliced == slice_off(self.values, to_remove)
        values == IF DOMAIN to_add # {}
                    THEN IF is_mesh(self)
                           THEN pad_boundary(sliced, to_add, self.boundary)
                           ELSE pad(sliced, DictValues(to_add), self.boundary)
                    ELSE sliced
    IN  IF dict_values_eq(old_determined_slices, new_determined_slices)
          THEN Field(self.geometry, self.values, boundary)
          ELSE Field(self.geometry, values, boundary)

(***************************************************************************)
(* The lambdas of the operator methods, on tensors and on extrapolations.   *)
(***************************************************************************)
BinaryOps ==
    {"add", "radd", "sub", "rsub", "mul", "rmul", "truediv", "rtruediv",
     "pow", "gt", "ge", "lt", "le"}

UnaryOps == {"neg", "abs"}

\* mutant: the reflected operators apply the operands in the order of the
\* unreflected ones
operator_unreflected(o, d1, d2) ==
    CASE o = "radd"     -> TensorOp("add", d1, d2)
      [] o = "rmul"     -> TensorOp("mul", d1, d2)
      [] o = "rsub"     -> TensorOp("sub", d1, d2)
      [] o = "rtruediv" -> TensorOp("truediv", d1, d2)
      [] OTHER          -> TensorOp(o, d1, d2)

operator(o, d1, d2) ==
    CASE o = "radd"     -> TensorOp("add", d1, d2)
      [] o = "rmul"     -> TensorOp("mul", d1, d2)
      [] o = "rsub"     -> TensorOp("sub", d2, d1)
      [] o = "rtruediv" -> TensorOp("truediv", d2, d1)
      [] OTHER          -> TensorOp(o, d1, d2)

(***************************************************************************)
(* Field._op1 and Field._op2                                                *)
(***************************************************************************)
\* mutant: the operator is applied to the values only
_op1_values_only(self, o) ==
    LET values == TensorOp1(o, self.values)
    IN  with_values(self, values)

_op1(self, o) ==
    LET values == TensorOp1(o, self.values)
        extrapolation_ == ExtOp1(o, self.boundary)
        with == with_values(self, values)
    IN  IF with.tag = "raised" THEN with
        ELSE with_boundary(with.value, extrapolation_)

\* names of the dimensions of Field.shape
shape_names(self) ==
    IF Field_is_staggered(self)
      THEN (self.values.names \ DualNames) \cup {"vector"}
      ELSE self.values.names

as_dual(t) ==
    IF "vector" \in t.names
      THEN [t EXCEPT !.names = (t.names \ {"vector"}) \cup {"~vector"}]
      ELSE t

spatial_rank(self) == 1

\* mutant: the Field-Field case keeps the boundary of self
_op2_keep_boundary(self, other, o) ==
    IF other.class = "Geometry" THEN Raised("ValueError")
    ELSE IF IsField(other) THEN
        LET other_values ==
                IF self.geometry = other.geometry THEN other.values
                ELSE sample(other, self.geometry, sampled_at(self),
                            self.boundary)
            values == operator(o, self.values, other_values)
            extrapolation_ == self.boundary
        IN  IF ~IsTensor(values) THEN Raised(values.kind)
            ELSE Field(self.geometry, values, extrapolation_)
    ELSE
        LET wrapped ==
                IF other.class = "tuple" /\ Len(other.items) = spatial_rank(self)
                  THEN Tensor("", {"vector"}, other.items)
                ELSE IF other.class = "Number" THEN wrap(other.value)
                ELSE other
            boundary == self.boundary
            other_ == IF /\ "vector" \in shape_names(self)
                         /\ "vector" \notin self.values.names
                         /\ "~vector" \in self.values.names
                        THEN as_dual(wrapped) ELSE wrapped
            values == operator(o, self.values, other_)
        IN  IF ~IsTensor(values) THEN Raised(values.kind)
            ELSE Field(self.geometry, values, boundary)

\* mutant: a bare number is combined with the boundary like a constant Field
_op2_number_boundary(self, other, o) ==
    IF other.class = "Geometry" THEN Raised("ValueError")
    ELSE IF IsField(other) THEN
        LET other_values ==
                IF self.geometry = other.geometry THEN other.values
                ELSE sample(other, self.geometry, sampled_at(self),
                            self.boundary)
            values == operator(o, self.values, other_values)
            extrapolation_ == ExtOp(o, self.boundary, other.boundary)
        IN  IF ~IsTensor(values) THEN Raised(values.kind)
            ELSE IF extrapolation_.class = "Error"
              THEN Raised(extrapolation_.kind)
            ELSE Field(self.geometry, values, extrapolation_)
    ELSE
        LET wrapped ==
                IF other.class = "tuple" /\ Len(other.items) = spatial_rank(self)
                  THEN Tensor("", {"vector"}, other.items)
                ELSE IF other.class = "Number" THEN wrap(other.value)
                ELSE other
            boundary ==
                IF other.class = "Number" /\ o \in ArithOps
                     /\ IsConstant(self.boundary)
                  THEN ExtOp(o, self.boundary, as_boundary(other, self.geometry))
                  ELSE self.boundary
            other_ == IF /\ "vector" \in shape_names(self)
                         /\ "vector" \notin self.values.names
                         /\ "~vector" \in self.values.names
                        THEN as_dual(wrapped) ELSE wrapped
            values == operator(o, self.values, other_)
        IN  IF ~IsTensor(values) THEN Raised(values.kind)
            ELSE Field(self.geometry, values, boundary)

\* mutant: the other Field is sampled with its own boundary
_op2_other_boundary(self, other, o) ==
    IF IsField(other) /\ self.geometry # other.geometry THEN
        LET other_values == sample(other, self.geometry, sampled_at(self),
                                   other.boundary)
            values == operator(o, self.values, other_values)
            extrapolation_ == ExtOp(o, self.boundary, other.boundary)
        IN  IF ~IsTensor(values) THEN Raised(values.kind)
            ELSE IF extrapolation_.class = "Error"
              THEN Raised(extrapolation_.kind)
            ELSE Field(self.geometry, values, extrapolation_)
    ELSE _op2_number_boundary(self, other, o)

_op2(self, other, o) ==
    IF other.class = "Geometry" THEN Raised("ValueError")
    ELSE IF IsField(other) THEN
        LET other_values ==
                IF self.geometry = other.geometry THEN other.values
                ELSE sample(other, self.geometry, sampled_at(self),
                            self.boundary)
            values == operator(o, self.values, other_values)
            extrapolation_ == ExtOp(o, self.boundary, other.boundary)
        IN  IF ~IsTensor(values) THEN Raised(values.kind)
            ELSE IF extrapolation_.class = "Error"
              THEN Raised(extrapolation_.kind)
            ELSE Field(self.geometry, values, extrapolation_)
    ELSE
        LET wrapped ==
                IF other.class = "tuple" /\ Len(other.items) = spatial_rank(self)
                  THEN Tensor("", {"vector"}, other.items)
                ELSE IF other.class = "Number" THEN wrap(other.value)
                ELSE other
            boundary == self.boundary
            other_ == IF /\ "vector" \in shape_names(self)
                         /\ "vector" \notin self.values.names
                         /\ "~vector" \in self.values.names
                        THEN as_dual(wrapped) ELSE wrapped
            values == operator(o, self.values, other_)
        IN  IF ~IsTensor(values) THEN Raised(values.kind)
            ELSE Field(self.geometry, values, boundary)

(***************************************************************************)
(* Field.downsample.  downsample2x belongs to the operator collaborator;    *)
(* its result is kept as the term downsample2x(field).                      *)
(***************************************************************************)
downsample2x(field) == [class |-> "Field", downsample2x |-> field]

RelTolerance == <<1, 100000>>

close(p, q) == ~NumLess(NumMul(RelTolerance, NumAbs(q)), NumAbs(NumSub(p, q)))

RECURSIVE downsample_loop(_, _)
downsample_loop(result, factor) ==
    IF ~NumLess(factor, Num(2))
      THEN downsample_loop(downsample2x(result), NumDiv(factor, Num(2)))
      ELSE <<result, factor>>

\* mutant: the remaining factor is not checked
downsample_unchecked(self, factor) ==
    LET end == downsample_loop(self, factor)
    IN  Returned(end[1])

downsample(self, factor) ==
    LET end == downsample_loop(self, factor)
    IN  IF close(end[2], Num(1)) THEN Returned(end[1])
        ELSE Raised("NotImplementedError")

(***************************************************************************)
(* Specification of the Field operations: lhs is a Field, a step calls one  *)
(* method of lhs with an argument rhs and leaves the outcome in res.        *)
(***************************************************************************)
ValueNames == {{}, {"~vector"}, {"~neighbors"}}

FieldBoundaries == {ZERO, ONE, PERIODIC, BOUNDARY}

DataOver(vals) ==
    UNION {[1 .. k -> {Num(v) : v \in vals}] : k \in 0 .. MaxRes + 1}

\* the Fields the constructor returns for tensor values over vals
FieldsOver(vals) ==
    LET made == {Field(g, Tensor(non_channel_dim(g), names, data), b) :
                    g \in Geometries, names \in ValueNames,
                    b \in FieldBoundaries, data \in DataOver(vals)}
    IN  {r.value : r \in {m \in made : m.tag = "returned"}}

Fields == FieldsOver(Val)

\* the second operand of a binary call: Fields on the geometry of self, on
\* a geometry of the same type and on a geometry of another type
NextRes(n) == (n % MaxRes) + 1

NextType(t) ==
    CASE t = "UniformGrid" -> "Mesh"
      [] t = "Mesh"        -> "Cylinder"
      [] t = "Cylinder"    -> "UniformGrid"

OtherGeometries(g) ==
    {g, Geometry(g.type, NextRes(g.n)), Geometry(NextType(g.type), g.n)}

OtherData ==
    UNION {{[i \in 1 .. k |-> Num(0)], [i \in 1 .. k |-> Num(2)],
            [i \in 1 .. k |-> Num(2 * (i % 2))]} : k \in 0 .. MaxRes + 1}

AllOtherFields ==
    LET made == {Field(g, Tensor(non_channel_dim(g), names, data), b) :
                    g \in Geometries, names \in ValueNames,
                    b \in FieldBoundaries, data \in OtherData}
    IN  {r.value : r \in {m \in made : m.tag = "returned"}}

OtherFields(self) ==
    {f \in AllOtherFields : f.geometry \in OtherGeometries(self.geometry)}

Numbers == {Number(Num(c)) : c \in {-1, 0, 2}}

Operands ==
    Numbers \cup {Tuple(<<Num(2)>>), Tensor("x", {}, <<Num(2), Num(0)>>),
                  Tensor("", {"~vector"}, <<Num(2)>>)}

FieldInit ==
    /\ lhs \in Fields
    /\ rhs = NoResult
    /\ op = "init"
    /\ res = NoResult

Field__eq__ ==
    /\ op = "init"
    /\ \E other \in OtherFields(lhs) \cup {Number(Num(0))} :
            /\ rhs' = other
            /\ op' = "eq"
            /\ res' = __eq__(lhs, other)
            /\ UNCHANGED lhs

\* lhs <o> other for another Field or a Geometry
Field_op2_Field ==
    /\ op = "init"
    /\ \E o \in ArithOps, other \in OtherFields(lhs) \cup {lhs.geometry} :
            /\ rhs' = other
            /\ op' = o
            /\ res' = _op2(lhs, other, o)
            /\ UNCHANGED lhs

\* lhs <o> other and other <o> lhs for a bare number, tuple or tensor
Field_op2_Value ==
    /\ op = "init"
    /\ \E o \in BinaryOps, other \in Operands :
            /\ rhs' = other
            /\ op' = o
            /\ res' = _op2(lhs, other, o)
            /\ UNCHANGED lhs

Field_op1 ==
    /\ op = "init"
    /\ \E o \in UnaryOps :
            /\ rhs' = NoResult
            /\ op' = o
            /\ res' = _op1(lhs, o)
            /\ UNCHANGED lhs

Field_with_boundary ==
    /\ op = "init"
    /\ \E new \in Extrapolations \cup {Number(Num(2))} :
            /\ rhs' = new
            /\ op' = "with_boundary"
            /\ res' = with_boundary(lhs, new)
            /\ UNCHANGED lhs

Field_downsample ==
    /\ op = "init"
    /\ \E factor \in 0 .. MaxFactor :
            /\ rhs' = Number(Num(factor))
            /\ op' = "downsample"
            /\ res' = downsample(lhs, Num(factor))
            /\ UNCHANGED lhs

FieldNext ==
    \/ Field__eq__
    \/ Field_op2_Field
    \/ Field_op2_Value
    \/ Field_op1
    \/ Field_with_boundary
    \/ Field_downsample

SpecField == FieldInit /\ [][FieldNext]_vars

\* the call just made and what it returned
Called(ops) == op \in ops

ReturnedField == res.tag = "returned" /\ res.value.class = "Field"

\* the sides of the face array that an extrapolation determines on geometry g
DeterminedSides(g, e) ==
    {boundary_faces(g)[k].side :
        k \in {k \in DOMAIN boundary_faces(g) : determines_boundary_values(e, k)}}

(***************************************************************************)
(* C1.  Field equality: f == g is true exactly when the geometries have the *)
(* same concrete type, the extrapolations are equal and the value tensors   *)
(* are numerically close; a Field of the same geometry, boundary and values *)
(* (same value shape) is equal.                                             *)
(***************************************************************************)
C1_FieldEquality ==
    (Called({"eq"}) /\ rhs.class = "Field") =>
        /\ res = Returned(bool(TRUE)) <=>
                (/\ lhs.geometry.type = rhs.geometry.type
                 /\ lhs.boundary = rhs.boundary
                 /\ always_close(lhs.values, rhs.values))
        /\ (/\ lhs.geometry = rhs.geometry
            /\ lhs.boundary = rhs.boundary
            /\ lhs.values = rhs.values) => res = Returned(bool(TRUE))

(***************************************************************************)
(* C2.  For two Fields on equal geometry and op in + - * /, the Field that  *)
(* f1 op f2 returns is on f1's geometry, has the values op(f1.values,       *)
(* f2.values) and the extrapolation op(f1.extrapolation,                    *)
(* f2.extrapolation); it is returned whenever the value shapes agree and    *)
(* the combined extrapolation exists and determines the boundaries that     *)
(* f1's does.                                                               *)
(***************************************************************************)
C2_Combined(o) ==
    CASE o = "add"     -> [i \in 1 .. Len(lhs.values.data) |->
                             NumAdd(lhs.values.data[i], rhs.values.data[i])]
      [] o = "sub"     -> [i \in 1 .. Len(lhs.values.data) |->
                             NumSub(lhs.values.data[i], rhs.values.data[i])]
      [] o = "mul"     -> [i \in 1 .. Len(lhs.values.data) |->
                             NumMul(lhs.values.data[i], rhs.values.data[i])]
      [] o = "truediv" -> [i \in 1 .. Len(lhs.values.data) |->
                             NumDiv(lhs.values.data[i], rhs.values.data[i])]

C2_SameGeometryArithmetic ==
    (Called(ArithOps) /\ rhs.class = "Field" /\ rhs.geometry = lhs.geometry) =>
        LET e == ExtOp(op, lhs.boundary, rhs.boundary)
        IN  /\ ReturnedField =>
                /\ res.value.geometry = lhs.geometry
                /\ res.value.values.data = C2_Combined(op)
                /\ res.value.boundary = e
            /\ (/\ Len(lhs.values.data) = Len(rhs.values.data)
                /\ lhs.values.names = rhs.values.names
                /\ IsExtrapolation(e)
                /\ DeterminedSides(lhs.geometry, e)
                      = DeterminedSides(lhs.geometry, lhs.boundary))
                  => ReturnedField

C2_Witness ==
    /\ Called({"add"}) /\ rhs.class = "Field" /\ rhs.geometry = lhs.geometry
    /\ lhs.boundary = ONE /\ rhs.boundary = ONE
    /\ Len(lhs.values.data) = 2
    /\ ReturnedField
    /\ res.value.boundary = ConstantExtrapolation(Num(2))

(***************************************************************************)
(* C3.  A binary operation between a Field f and a bare number, tuple or    *)
(* tensor returns a Field with exactly the extrapolation and the geometry   *)
(* of f; with a number it always returns.                                   *)
(***************************************************************************)
C3_ValueOperandKeepsBoundary ==
    (Called(BinaryOps) /\ rhs.class \in {"Number", "tuple", "Tensor"}) =>
        /\ ReturnedField =>
                /\ res.value.boundary = lhs.boundary
                /\ res.value.geometry = lhs.geometry
        /\ res.tag = "raised" => res.error = "IncompatibleShapes"
        /\ rhs.class \in {"Number", "tuple"} => ReturnedField

C3_Witness ==
    /\ Called({"rsub"}) /\ rhs = Number(Num(2))
    /\ lhs.boundary = PERIODIC /\ Field_is_staggered(lhs)
    /\ ReturnedField
    /\ res.value.boundary = PERIODIC
    /\ res.value.values # lhs.values

(***************************************************************************)
(* C4.  A unary operation (negation, abs) applies the operator to the       *)
(* values and to the extrapolation and keeps the geometry.                  *)
(***************************************************************************)
C4_UnaryOnExt(e) ==
    IF e.kind = "constant"
      THEN [e EXCEPT !.value = IF op = "neg" THEN <<-e.value[1], e.value[2]>>
                               ELSE <<Abs(e.value[1]), e.value[2]>>]
      ELSE e

C4_UnaryOperation ==
    Called(UnaryOps) =>
        /\ ReturnedField
        /\ res.value.geometry = lhs.geometry
        /\ res.value.boundary = C4_UnaryOnExt(lhs.boundary)
        /\ res.value.values.names = lhs.values.names
        /\ Len(res.value.values.data) = Len(lhs.values.data)
        /\ \A i \in 1 .. Len(lhs.values.data) :
              res.value.values.data[i] =
                 IF op = "neg" THEN NumNeg(lhs.values.data[i])
                 ELSE NumAbs(lhs.values.data[i])

C4_Witness ==
    /\ Called({"neg"}) /\ lhs.boundary = ONE /\ Field_is_staggered(lhs)
    /\ Len(lhs.values.data) > 0
    /\ ReturnedField
    /\ res.value.boundary = ConstantExtrapolation(Num(-1))

(***************************************************************************)
(* C5.  A Field is staggered exactly when its values carry a dual dimension *)
(* that contains the geometry's dual face dimension; is_centered is the     *)
(* negation; sampled_at is 'face' exactly when staggered; sampled_elements  *)
(* is the faces of the geometry (those the boundary leaves to the values)   *)
(* when staggered and the geometry itself otherwise.                        *)
(***************************************************************************)
C5_FaceDim(g) ==
    IF g.type = "UniformGrid" THEN "~vector"
    ELSE IF g.type = "Mesh" THEN "~neighbors" ELSE "~shell"

C5_Holds(f) ==
    LET carries == C5_FaceDim(f.geometry) \in f.values.names
    IN  /\ Field_is_staggered(f) <=> carries
        /\ is_centered(f) <=> ~carries
        /\ sampled_at(f) = "face" <=> carries
        /\ sampled_at(f) \in {"face", "center"}
        /\ carries =>
              /\ sampled_elements(f).type = "Faces"
              /\ sampled_elements(f).of = f.geometry
              /\ Len(sampled_elements(f).elements) =
                    SizeOf(f.values, non_channel_dim(f.geometry))
              /\ \A i \in 1 .. Len(sampled_elements(f).elements) :
                    sampled_elements(f).elements[i] \in 1 .. f.geometry.n + 1
        /\ ~carries => sampled_elements(f) = f.geometry

C5_StaggeredCentered ==
    /\ lhs.class = "Field" => C5_Holds(lhs)
    /\ (ReturnedField /\ ~Called({"downsample"})) => C5_Holds(res.value)

C5_Witness ==
    /\ Called({"mul"}) /\ rhs = Tensor("", {"~vector"}, <<Num(2)>>)
    /\ lhs.geometry.type = "UniformGrid" /\ lhs.boundary = PERIODIC
    /\ is_centered(lhs)
    /\ ReturnedField /\ Field_is_staggered(res.value)

(***************************************************************************)
(* C6.  downsample(factor) returns the result of n downsample2x steps for   *)
(* factor = 2^n (the Field itself for factor 1) and raises                  *)
(* NotImplementedError for every other factor.                              *)
(***************************************************************************)
RECURSIVE C6_Steps(_, _)
C6_Steps(n, f) ==
    IF n = 0 THEN f ELSE [class |-> "Field", downsample2x |-> C6_Steps(n - 1, f)]

RECURSIVE C6_Pow2(_)
C6_Pow2(n) == IF n = 0 THEN 1 ELSE 2 * C6_Pow2(n - 1)

C7_New == IF rhs.class = "Number" THEN ConstantExtrapolation(rhs.value) ELSE rhs

C7_Sides(e) ==
    IF Field_is_staggered(lhs) THEN DeterminedSides(lhs.geometry, e) ELSE {}

C7_OldValue(side) ==
    IF lhs.boundary.kind = "constant" THEN lhs.boundary.value
    ELSE IF side = "upper" THEN lhs.values.data[1]
    ELSE lhs.values.data[Len(lhs.values.data)]

C7_Expected ==
    LET old == C7_Sides(lhs.boundary)
        new == C7_Sides(C7_New)
        data == lhs.values.data
        kept == SubSeq(data, IF "lower" \in new \ old THEN 2 ELSE 1,
                       IF "upper" \in new \ old THEN Len(data) - 1 ELSE Len(data))
    IN  (IF "lower" \in old \ new THEN <<C7_OldValue("lower")>> ELSE <<>>)
          \o kept
          \o (IF "upper" \in old \ new THEN <<C7_OldValue("upper")>> ELSE <<>>)

C7_WithBoundary ==
    Called({"with_boundary"}) =>
        /\ ReturnedField
        /\ res.value.geometry = lhs.geometry
        /\ res.value.boundary = C7_New
        /\ res.value.values.names = lhs.values.names
        /\ res.value.values.data = C7_Expected
        /\ Field_is_staggered(lhs) =>
              Len(res.value.values.data) =
                  lhs.geometry.n + 1 - Cardinality(C7_Sides(C7_New))
        /\ C7_Sides(lhs.boundary) = C7_Sides(C7_New)
              => res.value.values = lhs.values

C7_Witness ==
    /\ Called({"with_boundary"}) /\ Field_is_staggered(lhs)
    /\ lhs.geometry = Geometry("UniformGrid", 2)
    /\ lhs.boundary = ONE /\ rhs = PERIODIC
    /\ ReturnedField
    /\ res.value.values.data = <<Num(1)>> \o lhs.values.data

(***************************************************************************)
(* Specification of the extrapolation algebra: lhs and rhs are              *)
(* extrapolations, every step evaluates  lhs <operator> rhs.                *)
(***************************************************************************)
ExtInit ==
    /\ lhs \in Extrapolations
    /\ rhs = NoResult
    /\ op = "init"
    /\ res = NoResult

ExtCombine(o) ==
    /\ op = "init"
    /\ \E b \in Extrapolations :
            /\ rhs' = b
            /\ op' = o
            /\ res' = ExtResult(ExtOp(o, lhs, b))
            /\ UNCHANGED lhs

Ext__add__ == ExtCombine("add")

Ext__sub__ == ExtCombine("sub")

Ext__mul__ == ExtCombine("mul")

Ext__truediv__ == ExtCombine("truediv")

ExtNext == Ext__add__ \/ Ext__sub__ \/ Ext__mul__ \/ Ext__truediv__

SpecExt == ExtInit /\ [][ExtNext]_vars

\* the step just taken evaluated  lhs <o> rhs  on two extrapolations
ExtStep(o) == op = o /\ IsExtrapolation(lhs) /\ IsExtrapolation(rhs)

(***************************************************************************)
(* C8.  Two constant extrapolations combine to the constant extrapolation   *)
(* of the operator applied to their values, compared by value:              *)
(* ONE+ONE = Constant(2), ONE-ONE = ZERO, ONE*ONE = ONE, ONE/ONE = ONE,     *)
(* ZERO/ONE = ZERO.                                                         *)
(***************************************************************************)
C8_ConstantsCombine ==
    /\ \A o \in ArithOps :
         (ExtStep(o) /\ IsConstant(lhs) /\ IsConstant(rhs)) =>
            /\ res.tag = "returned"
            /\ res.value.kind = "constant"
            /\ o = "add" => res.value.value = NumAdd(lhs.value, rhs.value)
            /\ o = "sub" => res.value.value = NumSub(lhs.value, rhs.value)
            /\ o = "mul" => res.value.value = NumMul(lhs.value, rhs.value)
            /\ o = "truediv" =>
                   res.value.value = NumDiv(lhs.value, rhs.value)
    /\ (ExtStep("add") /\ lhs = ONE /\ rhs = ONE) =>
            res = Returned(ConstantExtrapolation(<<2, 1>>))
    /\ (ExtStep("sub") /\ lhs = ONE /\ rhs = ONE) => res = Returned(ZERO)
    /\ (ExtStep("mul") /\ lhs = ONE /\ rhs = ONE) => res = Returned(ONE)
    /\ (ExtStep("truediv") /\ lhs = ONE /\ rhs = ONE) => res = Returned(ONE)
    /\ (ExtStep("truediv") /\ lhs = ZERO /\ rhs = ONE) => res = Returned(ZERO)

C8_Witness ==
    /\ ExtStep("truediv") /\ lhs = ZERO /\ rhs = ONE
    /\ res = Returned(ZERO)

(***************************************************************************)
(* C9.  PERIODIC combined with the identity constant of the operator is     *)
(* PERIODIC (PERIODIC+ZERO, ZERO+PERIODIC, PERIODIC-ZERO, PERIODIC*ONE,     *)
(* PERIODIC/ONE), and PERIODIC*ZERO is the constant ZERO.                   *)
(***************************************************************************)
C9_PeriodicIdentity ==
    /\ (ExtStep("add") /\ lhs = PERIODIC /\ rhs = ZERO)
            => res = Returned(PERIODIC)
    /\ (ExtStep("add") /\ lhs = ZERO /\ rhs = PERIODIC)
            => res = Returned(PERIODIC)
    /\ (ExtStep("sub") /\ lhs = PERIODIC /\ rhs = ZERO)
            => res = Returned(PERIODIC)
    /\ (ExtStep("mul") /\ lhs = PERIODIC /\ rhs = ONE)
            => res = Returned(PERIODIC)
    /\ (ExtStep("truediv") /\ lhs = PERIODIC /\ rhs = ONE)
            => res = Returned(PERIODIC)
    /\ (ExtStep("mul") /\ lhs = PERIODIC /\ rhs = ZERO)
            => res = Returned(ZERO)

C9_Witness ==
    /\ ExtStep("mul") /\ lhs = PERIODIC /\ rhs = ZERO
    /\ res = Returned(ZERO)

(***************************************************************************)
(* C10.  PERIODIC combined with PERIODIC under +, -, * or / is PERIODIC.    *)
(***************************************************************************)
C10_PeriodicPeriodic ==
    \A o \in ArithOps :
        (ExtStep(o) /\ lhs = PERIODIC /\ rhs = PERIODIC)
            => res = Returned(PERIODIC)

C10_Witness ==
    /\ ExtStep("truediv") /\ lhs = PERIODIC /\ rhs = PERIODIC
    /\ res = Returned(PERIODIC)

(***************************************************************************)
(* C11.  PERIODIC + c raises IncompatibleExtrapolations for every nonzero   *)
(* constant c, PERIODIC + BOUNDARY / SYMMETRIC / REFLECT raises it, and     *)
(* every operator on every pair of extrapolations either returns an         *)
(* extrapolation or raises this error.                                      *)
(***************************************************************************)
C11_Valid(e) ==
    /\ e.class = "Extrapolation"
    /\ \/ e \in CopyExtrapolations
       \/ e.kind = "constant" /\ e = ConstantExtrapolation(e.value)

C11_IncompatibleRaise ==
    /\ (ExtStep("add") /\ lhs = PERIODIC /\ IsConstant(rhs) /\ rhs # ZERO)
            => res = Raised("IncompatibleExtrapolations")
    /\ (ExtStep("add") /\ lhs = PERIODIC
                       /\ rhs \in {BOUNDARY, SYMMETRIC, REFLECT})
            => res = Raised("IncompatibleExtrapolations")
    /\ \A o \in ArithOps :
         ExtStep(o) =>
            \/ res = Raised("IncompatibleExtrapolations")
            \/ res.tag = "returned" /\ C11_Valid(res.value)

C11_Witness ==
    /\ ExtStep("add") /\ lhs = PERIODIC /\ rhs = BOUNDARY
    /\ res = Raised("IncompatibleExtrapolations")

(***************************************************************************)
(* Padding of tensors with several dimensions (math.pad, Extrapolation.pad).*)
(* A tensor has a size per dimension and one value per index tuple.  An     *)
(* extrapolation gives every dimension a rule for the lower and one for the *)
(* upper side; MixedExtrapolation names them per dimension.                 *)
(***************************************************************************)
MaxSize == 2

MaxWidth == 1

Largest(sizes) ==
    CHOOSE m \in {sizes[k] : k \in 1 .. Len(sizes)} :
        \A k \in 1 .. Len(sizes) : sizes[k] <= m

Indices(sizes) ==
    {idx \in [1 .. Len(sizes) -> 1 .. Largest(sizes)] :
        \A k \in 1 .. Len(sizes) : idx[k] <= sizes[k]}

NativeTensor(sizes, data) ==
    [class |-> "Tensor", sizes |-> sizes, data |-> data]

full(sizes, q) == NativeTensor(sizes, [idx \in Indices(sizes) |-> q])

zeros(sizes) == full(sizes, Num(0))

ones(sizes) == full(sizes, Num(1))

\* math.meshgrid([1, 2, 3, 4], [5, 6, 7]): the components along vector
meshgrid(xs, ys) ==
    [x |-> NativeTensor(<<Len(xs), Len(ys)>>,
                [idx \in Indices(<<Len(xs), Len(ys)>>) |-> Num(xs[idx[1]])]),
     y |-> NativeTensor(<<Len(xs), Len(ys)>>,
                [idx \in Indices(<<Len(xs), Len(ys)>>) |-> Num(ys[idx[2]])])]

MixedExtrapolation(ext) ==
    [class |-> "Extrapolation", kind |-> "mixed", ext |-> ext]

\* the rules (lower, upper) of an extrapolation along dimension k
RulesOf(e, k) == IF e.kind = "mixed" THEN e.ext[k] ELSE <<e, e>>

\* offset from the edge cell of the interior of the cell that the d-th added
\* cell copies (d = 1 is the added cell next to the interior of n cells)
SourceOffset(e, d, n) ==
    CASE e = PERIODIC  -> n - 1 - ((d - 1) % n)
      [] e = BOUNDARY  -> 0
      [] e = SYMMETRIC ->
            LET m == (d - 1) % (2 * n)
            IN  IF m < n THEN m ELSE 2 * n - 1 - m
      [] e = REFLECT ->
            IF n = 1 THEN 0
            ELSE LET m == d % (2 * n - 2)
                 IN  IF m <= n - 1 THEN m ELSE 2 * n - 2 - m

\* A tensor being padded: the tensor so far and, per dimension, the first
\* and the last index of the cells of the tensor given to pad.
Padding(t) ==
    [t |-> t, inner |-> [k \in 1 .. Len(t.sizes) |-> <<1, t.sizes[k]>>]]

\* pad along dimension k by lo cells below and hi cells above
pad_dim(p, k, lo, hi, elo, ehi) ==
    LET t     == p.t
        a     == p.inner[k][1]
        b     == p.inner[k][2]
        n     == b - a + 1
        size  == t.sizes[k]
        sizes == [t.sizes EXCEPT ![k] = lo + size + hi]
        value(idx) ==
            IF idx[k] <= lo
              THEN IF IsConstant(elo) THEN elo.value
                   ELSE t.data[[idx EXCEPT ![k] =
                                  a + SourceOffset(elo, lo - idx[k] + 1, n)]]
            ELSE IF idx[k] > lo + size
              THEN IF IsConstant(ehi) THEN ehi.value
                   ELSE t.data[[idx EXCEPT ![k] =
                                  b - SourceOffset(ehi, idx[k] - lo - size, n)]]
            ELSE t.data[[idx EXCEPT ![k] = idx[k] - lo]]
    IN  [t     |-> NativeTensor(sizes, [idx \in Indices(sizes) |-> value(idx)]),
         inner |-> [p.inner EXCEPT ![k] = <<a + lo, b + lo>>]]

\* one pass over the dimensions from k on, padding the sides whose rule is
\* constant (constants = TRUE) or the sides whose rule copies values
RECURSIVE pad_pass(_, _, _, _, _)
pad_pass(p, k, widths, e, constants) ==
    IF k > Len(widths) THEN p
    ELSE LET rules == RulesOf(e, k)
             lo == IF IsConstant(rules[1]) = constants THEN widths[k][1] ELSE 0
             hi == IF IsConstant(rules[2]) = constants THEN widths[k][2] ELSE 0
         IN  pad_pass(pad_dim(p, k, lo, hi, rules[1], rules[2]),
                      k + 1, widths, e, constants)

\* mutant: the widths below and above are exchanged
Extrapolation_pad_exchanged(value, widths, e) ==
    LET w == [k \in 1 .. Len(widths) |-> <<widths[k][2], widths[k][1]>>]
    IN  pad_pass(pad_pass(Padding(value), 1, w, e, TRUE), 1, w, e, FALSE).t

\* mutant: reflect mirrors the boundary cell too, as symmetric does
Extrapolation_pad_symmetric(value, widths, e) ==
    LET sym(r) == IF r = REFLECT THEN SYMMETRIC ELSE r
        u == IF e.kind = "mixed"
               THEN MixedExtrapolation(
                      [k \in 1 .. Len(e.ext) |->
                          <<sym(e.ext[k][1]), sym(e.ext[k][2])>>])
               ELSE sym(e)
    IN  pad_pass(pad_pass(Padding(value), 1, widths, u, TRUE),
                 1, widths, u, FALSE).t

\* Extrapolation.pad(value, widths) / math.pad(value, widths, extrapolation):
\* the constant sides are added first, then the copying sides
Extrapolation_pad(value, widths, e) ==
    pad_pass(pad_pass(Padding(value), 1, widths, e, TRUE),
             1, widths, e, FALSE).t

(***************************************************************************)
(* Specification of padding: lhs is a tensor, every step pads it once.      *)
(***************************************************************************)
PadShapes == {<<sx, sy>> : sx \in 1 .. MaxSize, sy \in 1 .. MaxSize}

\* a tensor whose values all differ
arange(sizes) ==
    NativeTensor(sizes, [idx \in Indices(sizes) |-> Num(idx[1] + 10 * idx[2])])

\* the tensors of test_pad and test_pad_tensor
test_pad_sizes == <<3, 4, 5, 1>>

test_pad_widths == <<<<1, 1>>, <<1, 0>>, <<0, 1>>, <<0, 0>>>>

test_pad_tensor_a == meshgrid(<<1, 2, 3, 4>>, <<5, 6, 7>>)

test_pad_tensor_widths == <<<<1, 2>>, <<3, 4>>>>

test_pad_tensor_extrap == MixedExtrapolation(<<<<PERIODIC, PERIODIC>>, <<ONE, REFLECT>>>>)

PadTensors ==
    {zeros(sh) : sh \in PadShapes} \cup {arange(sh) : sh \in PadShapes}
        \cup {full(test_pad_sizes, Num(c)) : c \in {-1, 0, 1}}
        \cup {test_pad_tensor_a.x, test_pad_tensor_a.y}

PadWidths(t) ==
    IF Len(t.sizes) = 2
      THEN [1 .. 2 -> (0 .. MaxWidth) \X (0 .. MaxWidth)]
               \cup {test_pad_tensor_widths}
      ELSE {test_pad_widths}

\* rules for the lower and the upper side of one dimension
SideRules ==
    {<<PERIODIC, PERIODIC>>, <<ONE, REFLECT>>, <<REFLECT, ONE>>,
     <<SYMMETRIC, SYMMETRIC>>, <<BOUNDARY, ONE>>}

MixedExtrapolations == {MixedExtrapolation(ext) : ext \in [1 .. 2 -> SideRules]}

PadArgs(widths, e) ==
    [class |-> "PadArgs", widths |-> widths, extrapolation |-> e]

PadInit ==
    /\ lhs \in PadTensors
    /\ rhs = NoResult
    /\ op = "init"
    /\ res = NoResult

\* ConstantExtrapolation(c).pad(tensor, widths)
ConstantExtrapolation_pad ==
    /\ op = "init"
    /\ \E c \in ConstVal, widths \in PadWidths(lhs) :
            /\ rhs' = PadArgs(widths, ConstantExtrapolation(Num(c)))
            /\ op' = "pad"
            /\ res' = Returned(Extrapolation_pad(lhs, widths,
                                    ConstantExtrapolation(Num(c))))
            /\ UNCHANGED lhs

\* math.pad(a, widths, MixedExtrapolation({'x': ..., 'y': (..., ...)}))
math_pad ==
    /\ op = "init"
    /\ Len(lhs.sizes) = 2
    /\ \E e \in MixedExtrapolations, widths \in PadWidths(lhs) :
            /\ rhs' = PadArgs(widths, e)
            /\ op' = "pad"
            /\ res' = Returned(Extrapolation_pad(lhs, widths, e))
            /\ UNCHANGED lhs

PadNext == ConstantExtrapolation_pad \/ math_pad

SpecPad == PadInit /\ [][PadNext]_vars

\* the step just taken padded lhs
Padded == op = "pad" /\ res.tag = "returned"

\* the cell of the result lies over the cell of the input shifted by lo
Interior(idx) ==
    \A k \in 1 .. Len(lhs.sizes) :
        /\ idx[k] > rhs.widths[k][1]
        /\ idx[k] <= rhs.widths[k][1] + lhs.sizes[k]

InputIndex(idx) == [k \in 1 .. Len(lhs.sizes) |-> idx[k] - rhs.widths[k][1]]

PaddedSizes ==
    [k \in 1 .. Len(lhs.sizes) |->
        lhs.sizes[k] + rhs.widths[k][1] + rhs.widths[k][2]]

(***************************************************************************)
(* C12.  Padding with a constant extrapolation c and widths (lo, hi) per    *)
(* dimension gives a tensor of size input + lo + hi along each dimension,   *)
(* whose interior is the input and whose added cells all equal c; a         *)
(* dimension of widths (0, 0) keeps its size.  zeros / ones / -ones of      *)
(* shape (3,4,5,1) with widths [1,1], [1,0], [0,1], [0,0] give zeros /      *)
(* ones / -ones of shape (5,5,6,1).                                         *)
(***************************************************************************)
C12_ConstantPad ==
    (Padded /\ IsConstant(rhs.extrapolation)) =>
        LET out == res.value
        IN  /\ out.sizes = PaddedSizes
            /\ DOMAIN out.data = Indices(PaddedSizes)
            /\ \A idx \in Indices(PaddedSizes) :
                 out.data[idx] = IF Interior(idx)
                                   THEN lhs.data[InputIndex(idx)]
                                   ELSE rhs.extrapolation.value
            /\ \A k \in 1 .. Len(lhs.sizes) :
                 rhs.widths[k] = <<0, 0>> => out.sizes[k] = lhs.sizes[k]
            /\ \A c \in {-1, 0, 1} :
                 (/\ lhs = full(test_pad_sizes, Num(c))
                  /\ rhs.extrapolation = ConstantExtrapolation(Num(c)))
                    => out = full(<<5, 5, 6, 1>>, Num(c))

C12_Witness ==
    /\ Padded
    /\ lhs = arange(<<2, 2>>)
    /\ rhs = PadArgs(<<<<1, 0>>, <<0, 1>>>>, ConstantExtrapolation(Num(2)))
    /\ res.value.sizes = <<3, 3>>
    /\ res.value.data[<<1, 1>>] = Num(2)
    /\ res.value.data[<<2, 1>>] = Num(11)
    /\ res.value.data[<<3, 3>>] = Num(2)

\* the dimensions along which the cell of the result lies outside the input
OutsideDims(idx) ==
    {k \in 1 .. Len(lhs.sizes) :
        idx[k] <= rhs.widths[k][1] \/ idx[k] > rhs.widths[k][1] + lhs.sizes[k]}

\* the reference tensor b of test_pad_tensor, per component of vector
test_pad_tensor_b ==
    [x |-> [idx \in Indices(<<7, 10>>) |->
               IF idx[2] <= 3 THEN Num(1)
               ELSE Num(<<4, 1, 2, 3, 4, 1, 2>>[idx[1]])],
     y |-> [idx \in Indices(<<7, 10>>) |->
               Num(<<1, 1, 1, 5, 6, 7, 6, 5, 6, 7>>[idx[2]])]]

(***************************************************************************)
(* C13.  Padding with a mixed extrapolation applies the rule of each        *)
(* boundary: the result has size input + lo + hi per dimension and the      *)
(* input in its centre; the cells added on a constant side equal the        *)
(* constant; the cells added along a periodic dimension repeat the values   *)
(* from the opposite edge; the cells added on a reflect side mirror the     *)
(* interior without the boundary cell.  The 4x3 grid of test_pad_tensor     *)
(* with x periodic (1,2) and y (ONE, REFLECT) (3,4) gives shape (7,10), the *)
(* first 3 rows along y all 1, and the reference values of the test.        *)
(***************************************************************************)
C13_Expected(idx, k) ==
    LET lo    == rhs.widths[k][1]
        n     == lhs.sizes[k]
        lower == idx[k] <= lo
        d     == IF lower THEN lo - idx[k] + 1 ELSE idx[k] - lo - n
        rule  == rhs.extrapolation.ext[k][IF lower THEN 1 ELSE 2]
        from(i) == lhs.data[[InputIndex(idx) EXCEPT ![k] = i]]
    IN  CASE rule = PERIODIC /\ d <= n ->
                {IF lower THEN from(n - d + 1) ELSE from(d)}
          [] rule = REFLECT /\ d <= n - 1 ->
                {IF lower THEN from(1 + d) ELSE from(n - d)}
          [] IsConstant(rule) -> {rule.value}
          [] OTHER -> {}

C13_MixedPad ==
    (Padded /\ rhs.extrapolation.kind = "mixed") =>
        LET out == res.value
        IN  /\ out.sizes = PaddedSizes
            /\ DOMAIN out.data = Indices(PaddedSizes)
            /\ \A idx \in Indices(PaddedSizes) :
                 /\ Interior(idx) => out.data[idx] = lhs.data[InputIndex(idx)]
                 /\ \A k \in 1 .. Len(lhs.sizes) :
                      OutsideDims(idx) = {k} =>
                          \A v \in C13_Expected(idx, k) : out.data[idx] = v
                 /\ \A k \in OutsideDims(idx) :
                      LET rule == rhs.extrapolation.ext[k][
                                    IF idx[k] <= rhs.widths[k][1] THEN 1 ELSE 2]
                      IN  IsConstant(rule) => out.data[idx] = rule.value
            /\ \A c \in {"x", "y"} :
                 (/\ lhs = test_pad_tensor_a[c]
                  /\ rhs = PadArgs(test_pad_tensor_widths, test_pad_tensor_extrap))
                    => /\ out.sizes = <<7, 10>>
                       /\ \A i \in 1 .. 7, j \in 1 .. 3 :
                            out.data[<<i, j>>] = Num(1)
                       /\ out.data = test_pad_tensor_b[c]

C13_Witness ==
    /\ Padded
    /\ lhs = test_pad_tensor_a.x
    /\ rhs = PadArgs(test_pad_tensor_widths, test_pad_tensor_extrap)
    /\ res.value.sizes = <<7, 10>>
    /\ res.value.data[<<1, 4>>] = Num(4)
    /\ res.value.data[<<7, 10>>] = Num(2)

(***************************************************************************)
(* Spheres (src/phi/geom/_sphere.py).  A Sphere holds one center and one    *)
(* radius per instance; points are vectors of two components.  Every value  *)
(* is an exact rational; the inputs are drawn so that every square root     *)
(* taken is the root of the square of a rational.                           *)
(***************************************************************************)
SqrtResolution == 100

\* largest integer whose square is at most n, searched between lo and hi
RECURSIVE ISqrt(_, _, _)
ISqrt(n, lo, hi) ==
    IF lo >= hi THEN lo
    ELSE LET mid == (lo + hi + 1) \div 2
         IN  IF mid * mid <= n THEN ISqrt(n, mid, hi) ELSE ISqrt(n, lo, mid - 1)

\* math.sqrt: exact on squares of rationals, rounded down to a multiple of
\* 1 / (denominator * SqrtResolution) otherwise
sqrt(q) ==
    LET m == q[1] * q[2] * SqrtResolution * SqrtResolution
    IN  Norm(ISqrt(m, 0, 46340), q[2] * SqrtResolution)

maximum(p, q) == IF NumLess(p, q) THEN q ELSE p

vec_squared(v) == NumAdd(NumMul(v[1], v[1]), NumMul(v[2], v[2]))

VecSub(u, v) == <<NumSub(u[1], v[1]), NumSub(u[2], v[2])>>

VecAdd(u, v) == <<NumAdd(u[1], v[1]), NumAdd(u[2], v[2])>>

Sphere(centers, radii) ==
    [class |-> "Geometry", type |-> "Sphere", center |-> centers,
     radius |-> radii]

\* math.min over the instance dimension
RECURSIVE MinOver(_)
MinOver(qs) ==
    IF Len(qs) = 1 THEN qs[1]
    ELSE LET m == MinOver(Tail(qs))
         IN  IF NumLess(m, qs[1]) THEN m ELSE qs[1]

Sphere_lies_inside(self, location) ==
    LET distance_squared ==
            [i \in 1 .. Len(self.center) |->
                vec_squared(VecSub(location, self.center[i]))]
    IN  \E i \in 1 .. Len(self.center) :
            ~NumLess(NumMul(self.radius[i], self.radius[i]),
                     distance_squared[i])

Sphere_approximate_signed_distance(self, location) ==
    LET distance_squared ==
            [i \in 1 .. Len(self.center) |->
                maximum(vec_squared(VecSub(location, self.center[i])),
                        NumMul(self.radius[i], <<1, 100>>))]
        distance ==
            [i \in 1 .. Len(self.center) |-> sqrt(distance_squared[i])]
    IN  MinOver([i \in 1 .. Len(self.center) |->
                    NumSub(distance[i], self.radius[i])])

(***************************************************************************)
(* Specification of the Sphere queries: lhs is a Sphere, every step asks    *)
(* one query at one location.                                               *)
(***************************************************************************)
SphereCenters == {<<Num(0), Num(0)>>, <<Num(1), Num(0)>>}

SphereRadii == {<<1, 400>>, <<1, 4>>, Num(1), Num(4)}

Spheres ==
    {Sphere(<<c>>, <<r>>) : c \in SphereCenters, r \in SphereRadii}
        \cup {Sphere(<<<<Num(0), Num(0)>>, <<Num(1), Num(0)>>>>, <<r, s>>) :
                 r \in SphereRadii, s \in {<<1, 4>>, Num(1)}}

\* offsets whose length is rational: along an axis, or a multiple of (3, 4)
Scales == {<<1, 20>>, <<1, 8>>, <<1, 2>>, Num(1), Num(2), Num(5)}

Offsets ==
    {<<Num(0), Num(0)>>}
        \cup {<<q, Num(0)>> : q \in Scales}
        \cup {<<Num(0), NumNeg(q)>> : q \in Scales}
        \cup {<<NumMul(<<3, 5>>, q), NumMul(<<4, 5>>, q)>> : q \in Scales}

Locations(self) ==
    {VecAdd(self.center[i], o) : i \in 1 .. Len(self.center), o \in Offsets}

SphereInit ==
    /\ lhs \in Spheres
    /\ rhs = NoResult
    /\ op = "init"
    /\ res = NoResult

SphereLiesInside ==
    /\ op = "init"
    /\ \E location \in Locations(lhs) :
            /\ rhs' = location
            /\ op' = "lies_inside"
            /\ res' = Returned(bool(Sphere_lies_inside(lhs, location)))
            /\ UNCHANGED lhs

SphereApproximateSignedDistance ==
    /\ op = "init"
    /\ \E location \in Locations(lhs) :
            /\ rhs' = location
            /\ op' = "approximate_signed_distance"
            /\ res' = Returned(Number(
                        Sphere_approximate_signed_distance(lhs, location)))
            /\ UNCHANGED lhs

SphereNext == SphereLiesInside \/ SphereApproximateSignedDistance

SpecSphere == SphereInit /\ [][SphereNext]_vars

(***************************************************************************)
(* C14.  For a single Sphere of radius r, approximate_signed_distance at a  *)
(* point at distance d < r from the center returns d - r, and at the        *)
(* center it returns a finite negative value.                               *)
(***************************************************************************)
C14_SphereSignedDistance ==
    (op = "approximate_signed_distance" /\ Len(lhs.center) = 1) =>
        LET r   == lhs.radius[1]
            dsq == vec_squared(VecSub(rhs, lhs.center[1]))
            sd  == res.value.value
        IN  /\ (NumLess(dsq, NumMul(r, r)) /\ dsq # Num(0))
                    => sd = NumSub(sqrt(dsq), r)
            /\ dsq = Num(0) => IsFinite(sd) /\ NumLess(sd, Num(0))

(***************************************************************************)
(* C15.  For a Sphere of any positive radius, approximate_signed_distance   *)
(* is not positive wherever lies_inside is true (the center included) and   *)
(* positive wherever lies_inside is false.                                  *)
(***************************************************************************)
C15_SphereSignConvention ==
    op = "approximate_signed_distance" =>
        LET sd == res.value.value
        IN  IF Sphere_lies_inside(lhs, rhs)
              THEN ~NumLess(Num(0), sd)
              ELSE NumLess(Num(0), sd)

(***************************************************************************)
(* Field.at: resample(self, representation) samples self at the sample      *)
(* points of the representation and takes the representation's geometry     *)
(* and, unless the extrapolation is kept, its boundary.                     *)
(***************************************************************************)
resample(value, to, keep_boundary) ==
    LET extrap == IF keep_boundary THEN value.boundary ELSE to.boundary
    IN  Field(to.geometry,
              sample(value, to.geometry, sampled_at(to), extrap), extrap)

at(self, representation, keep_extrapolation) ==
    resample(self, representation, keep_extrapolation)

(***************************************************************************)
(* Specification of resampling: lhs is a Field, a step resamples it onto a  *)
(* representation, itself or another Field.                                 *)
(***************************************************************************)
ResampleInit ==
    /\ lhs \in Fields
    /\ rhs = NoResult
    /\ op = "init"
    /\ res = NoResult

Field_at ==
    /\ op = "init"
    /\ \E representation \in OtherFields(lhs) \cup {lhs} :
            /\ rhs' = representation
            /\ op' = "at"
            /\ res' = at(lhs, representation, FALSE)
            /\ UNCHANGED lhs

Field_at_keep_extrapolation ==
    /\ op = "init"
    /\ \E representation \in OtherFields(lhs) \cup {lhs} :
            /\ rhs' = representation
            /\ op' = "at_keep_extrapolation"
            /\ res' = at(lhs, representation, TRUE)
            /\ UNCHANGED lhs

ResampleNext == Field_at \/ Field_at_keep_extrapolation

SpecResample == ResampleInit /\ [][ResampleNext]_vars

(***************************************************************************)
(* C16.  Round trip: for every Field f, f.at(f) returns a Field that        *)
(* compares equal (==) to f.                                                *)
(***************************************************************************)
C16_RoundTrip ==
    (Called({"at", "at_keep_extrapolation"}) /\ rhs = lhs) =>
        /\ ReturnedField
        /\ __eq__(res.value, lhs) = Returned(bool(TRUE))

(***************************************************************************)
(* Field.__init__ statement by statement.  The object under construction    *)
(* holds the attributes assigned so far and the calls made so far; pc names *)
(* the statement to execute next.                                           *)
(***************************************************************************)
Args(geometry, values, boundary) ==
    [class |-> "Args", geometry |-> geometry, values |-> values,
     boundary |-> boundary]

Constructing(attrs, calls) ==
    [class |-> "Constructing", attrs |-> attrs, calls |-> calls]

NoAttrs == [a \in {} |-> NoResult]

SetAttr(attrs, name, value) ==
    [a \in DOMAIN attrs \cup {name} |-> IF a = name THEN value ELSE attrs[a]]

Step(pc, self, outcome) == [pc |-> pc, self |-> self, res |-> outcome]

\* the statements after the assertion
Field__init__body(pc, args, self) ==
    CASE pc = "boundary" ->
            LET boundary == as_boundary(args.boundary, args.geometry)
            IN  Step("values",
                     Constructing(
                        SetAttr(SetAttr(self.attrs, "_boundary", boundary),
                                "_geometry", args.geometry),
                        Append(self.calls, "as_boundary")),
                     NoResult)
      [] pc = "values" ->
            LET g == args.geometry
                sampled == args.values.class \notin {"Tensor", "Number", "bool"}
                values ==
                    IF args.values.class = "Tensor" THEN args.values
                    ELSE IF args.values.class \in {"Number", "bool"}
                      THEN wrap(args.values.value)
                    ELSE sample(args.values, g, "center",
                                self.attrs["_boundary"])
                expanded == ~HasDim(values, non_channel_dim(g))
                v == IF expanded
                       THEN expand(values, non_channel_dim(g), g.n) ELSE values
                calls == Append(self.calls,
                                IF sampled THEN "sample" ELSE "wrap")
            IN  Step("check",
                     Constructing(SetAttr(self.attrs, "_values", v),
                                  IF expanded
                                    THEN Append(Append(calls, "wrap"),
                                                "expand")
                                    ELSE calls),
                     NoResult)
      [] pc = "check" ->
            LET g == self.attrs["_geometry"]
                v == self.attrs["_values"]
                b == self.attrs["_boundary"]
                elements == SampledElements(g, v, b)
                checked == Constructing(self.attrs,
                                        Append(self.calls, "merge_shapes"))
            IN  IF elements.class = "Error"
                  THEN Step("raised", self, Raised(elements.kind))
                ELSE IF SizeOf(v, non_channel_dim(g)) # NumElements(elements)
                  THEN Step("raised", checked, Raised("IncompatibleShapes"))
                ELSE Step("done", checked, Returned(MkField(g, v, b)))

\* mutant: the geometry is checked after the boundary was derived
Field__init__late_assert(pc, args, self) ==
    IF pc = "assert"
      THEN LET boundary == as_boundary(args.boundary, args.geometry)
               assigned == Constructing(
                             SetAttr(SetAttr(self.attrs, "_boundary", boundary),
                                     "_geometry", args.geometry),
                             Append(self.calls, "as_boundary"))
           IN  IF args.geometry.class # "Geometry"
                 THEN Step("raised", assigned, Raised("AssertionError"))
                 ELSE Step("values", assigned, NoResult)
      ELSE Field__init__body(pc, args, self)

Field__init__(pc, args, self) ==
    IF pc = "assert"
      THEN IF args.geometry.class # "Geometry"
             THEN Step("raised", self, Raised("AssertionError"))
             ELSE Step("boundary", self, NoResult)
      ELSE Field__init__body(pc, args, self)

(***************************************************************************)
(* Specification of the construction of a Field: lhs holds the arguments,   *)
(* rhs the object under construction, op the statement to execute next.     *)
(***************************************************************************)
NotGeometries == {Tensor("x", {}, <<Num(0), Num(0)>>), Number(Num(1)), NoResult}

InitValues ==
    {Number(Num(0)), Tensor("x", {}, <<Num(0), Num(2)>>),
     Tensor("x", {"~vector"}, <<Num(0), Num(2), Num(0)>>),
     Tensor("cells", {}, <<Num(2)>>), Tensor("", {"~shell"}, <<Num(2)>>)}
        \cup {f \in AllOtherFields :
                /\ f.geometry.type = "UniformGrid"
                /\ f.boundary = ZERO
                /\ f.values.names = {}}

InitBoundaries == Extrapolations \cup {Number(Num(2))}

ConstructInit ==
    /\ lhs \in {Args(g, v, b) : g \in Geometries \cup NotGeometries,
                                v \in InitValues, b \in InitBoundaries}
    /\ rhs = Constructing(NoAttrs, <<>>)
    /\ op = "assert"
    /\ res = NoResult

Field__init__step ==
    /\ op \notin {"raised", "done"}
    /\ LET next == Field__init__(op, lhs, rhs)
       IN  /\ op' = next.pc
           /\ rhs' = next.self
           /\ res' = next.res
    /\ UNCHANGED lhs

ConstructNext == Field__init__step

SpecConstruct == ConstructInit /\ [][ConstructNext]_vars

(***************************************************************************)
(* C17.  Constructing a Field with a geometry argument that is not a        *)
(* Geometry fails at once: an AssertionError is raised before the boundary  *)
(* is derived or values are sampled, no attribute of the Field is assigned  *)
(* and no Field is returned.                                                *)
(***************************************************************************)
C17_NotGeometryFails ==
    lhs.geometry.class # "Geometry" =>
        /\ op \in {"assert", "raised"}
        /\ rhs = Constructing(NoAttrs, <<>>)
        /\ op = "raised" => res = Raised("AssertionError")
        /\ op = "assert" => res = NoResult

C17_Witness ==
    /\ lhs.geometry = Number(Num(1))
    /\ op = "raised"
    /\ res = Raised("AssertionError")
    /\ rhs.calls = <<>>

(***************************************************************************)
(* Staggered grids in two dimensions.  The values of a staggered Field are  *)
(* one tensor per component of vector; the component along a dimension      *)
(* holds one value per face across that dimension, without the outer faces  *)
(* whose values the boundary determines.                                    *)
(***************************************************************************)
DimNames == <<"x", "y">>

UniformGrid(resolution) ==
    [class |-> "Geometry", type |-> "UniformGrid", resolution |-> resolution]

BoundaryKey(k, upper) == IF upper THEN <<"x+", "y+">>[k] ELSE <<"x-", "y-">>[k]

\* boundary.determines_boundary_values(key) for the side of a dimension
determines_side(e, k, upper) ==
    determines_boundary_values(RulesOf(e, k)[IF upper THEN 2 ELSE 1],
                               BoundaryKey(k, upper))

\* get_faces(geometry, boundary): the sizes of the faces across dimension k
\* that are left after slice_off_constant_faces
FaceSizes(geometry, boundary, k) ==
    [j \in 1 .. Len(geometry.resolution) |->
        IF j = k
          THEN geometry.resolution[j] + 1
                 - (IF determines_side(boundary, k, FALSE) THEN 1 ELSE 0)
                 - (IF determines_side(boundary, k, TRUE) THEN 1 ELSE 0)
          ELSE geometry.resolution[j]]

\* extrapolation.valid_outer_faces(dim): (lower valid, upper valid)
ValidOuterFaces(e) ==
    CASE IsConstant(e) -> <<FALSE, FALSE>>
      [] e = PERIODIC  -> <<TRUE, FALSE>>
      [] OTHER         -> <<TRUE, TRUE>>

valid_outer_faces(e, k) ==
    IF e.kind = "mixed"
      THEN <<ValidOuterFaces(e.ext[k][1])[1], ValidOuterFaces(e.ext[k][2])[2]>>
      ELSE ValidOuterFaces(e)

int(b) == IF b THEN 1 ELSE 0

\* math.stack(padded, channel(vector=...)) with the assertion that follows
stack(padded) ==
    [class |-> "Tensor", vector |-> padded,
     is_uniform |-> \A i, j \in 1 .. Len(padded) :
                        padded[i].sizes = padded[j].sizes]

\* mutant: the other dimensions are not padded
staggered_tensor_own_only(self) ==
    LET resolution == self.geometry.resolution
        padded ==
            [k \in 1 .. Len(resolution) |->
                LET valid == valid_outer_faces(self.boundary, k)
                    widths == [d \in 1 .. Len(resolution) |->
                                  IF d = k THEN <<int(~valid[1]), int(~valid[2])>>
                                           ELSE <<0, 0>>]
                IN  Extrapolation_pad(self.values[k], widths, self.boundary)]
        result == stack(padded)
    IN  IF DimNames # self.vector THEN Raised("AssertionError")
        ELSE IF ~result.is_uniform THEN Raised("AssertionError")
        ELSE Returned(result)

staggered_tensor(self) ==
    LET resolution == self.geometry.resolution
        padded ==
            [k \in 1 .. Len(resolution) |->
                LET valid == valid_outer_faces(self.boundary, k)
                    widths == [d \in 1 .. Len(resolution) |->
                                  IF d = k THEN <<int(~valid[1]), int(~valid[2])>>
                                           ELSE <<0, 1>>]
                IN  Extrapolation_pad(self.values[k], widths, self.boundary)]
        result == stack(padded)
    IN  IF DimNames # self.vector THEN Raised("AssertionError")
        ELSE IF ~result.is_uniform THEN Raised("AssertionError")
        ELSE Returned(result)

(***************************************************************************)
(* Specification of staggered_tensor: lhs is a staggered Field on a grid of *)
(* two dimensions, the step densifies it.                                   *)
(***************************************************************************)
StaggeredBoundaries == {ZERO, ONE, PERIODIC, BOUNDARY} \cup MixedExtrapolations

\* the values of component k: all zero, or all different
StaggeredValues(geometry, boundary, distinct) ==
    [k \in 1 .. 2 |->
        LET sizes == FaceSizes(geometry, boundary, k)
        IN  NativeTensor(sizes,
                [idx \in Indices(sizes) |->
                    IF distinct THEN Num(100 * k + idx[1] + 10 * idx[2])
                                ELSE Num(0)])]

StaggeredField(geometry, boundary, distinct) ==
    [class |-> "Field", geometry |-> geometry, vector |-> DimNames,
     values |-> StaggeredValues(geometry, boundary, distinct),
     boundary |-> boundary]

StaggeredFields ==
    {StaggeredField(UniformGrid(sh), b, distinct) :
        sh \in PadShapes, b \in StaggeredBoundaries, distinct \in BOOLEAN}

StaggeredInit ==
    /\ lhs \in StaggeredFields
    /\ rhs = NoResult
    /\ op = "init"
    /\ res = NoResult

Field_staggered_tensor ==
    /\ op = "init"
    /\ rhs' = NoResult
    /\ op' = "staggered_tensor"
    /\ res' = staggered_tensor(lhs)
    /\ UNCHANGED lhs

StaggeredNext == Field_staggered_tensor

SpecStaggered == StaggeredInit /\ [][StaggeredNext]_vars

(***************************************************************************)
(* C18.  staggered_tensor returns one uniform tensor whose size is          *)
(* resolution + 1 along every dimension for every component, for each       *)
(* combination of valid lower / upper outer faces: the component along a    *)
(* dimension grows by (not lower_valid) + (not upper_valid) along that      *)
(* dimension and by 1 along the others, and its stored values lie in the    *)
(* result behind the cells added below.                                     *)
(***************************************************************************)
C18_StaggeredTensor ==
    op = "staggered_tensor" =>
        /\ res.tag = "returned"
        /\ res.value.is_uniform
        /\ \A k \in 1 .. 2 :
             LET valid  == valid_outer_faces(lhs.boundary, k)
                 stored == lhs.values[k]
                 out    == res.value.vector[k]
             IN  /\ \A d \in 1 .. 2 :
                      /\ out.sizes[d] = lhs.geometry.resolution[d] + 1
                      /\ out.sizes[d] = stored.sizes[d] +
                            (IF d = k THEN int(~valid[1]) + int(~valid[2])
                                      ELSE 1)
                 /\ \A idx \in Indices(stored.sizes) :
                      out.data[[idx EXCEPT ![k] = idx[k] + int(~valid[1])]]
                          = stored.data[idx]

\* all four combinations of valid outer faces along x occur
C18_Combination(lo, up) ==
    /\ op = "staggered_tensor"
    /\ valid_outer_faces(lhs.boundary, 1) = <<lo, up>>
    /\ lhs.geometry.resolution = <<2, 1>>
    /\ res.tag = "returned"
    /\ res.value.vector[1].sizes = <<3, 2>>

C18_Witness ==
    /\ C18_Combination(FALSE, TRUE)
    /\ lhs.boundary.kind = "mixed"

(***************************************************************************)
(* Field.with_geometry and Field.__getitem__.  An item is the empty dict or *)
(* a slice lo:hi along the non-channel dimension of the geometry.           *)
(***************************************************************************)
with_geometry(self, elements) ==
    IF non_channel_dim(elements) # non_channel_dim(self.geometry)
            \/ elements.n # self.geometry.n
      THEN Raised("AssertionError")
      ELSE Field(elements, self.values, self.boundary)

EmptyItem == [class |-> "dict", dims |-> {}]

Slice(lo, hi) == [class |-> "dict", dims |-> {"spatial"}, lo |-> lo, hi |-> hi]

Min(a, b) == IF a < b THEN a ELSE b

\* geometry[item] for a uniform grid or a mesh
Geometry__getitem__(g, item) ==
    Geometry(g.type, Min(item.hi, g.n) - Min(item.lo, g.n))

\* tensor[item]: the indices lo .. hi - 1 (counted from 0) along the first
\* dimension
Tensor__getitem__(t, item) ==
    LET width == Volume(t.rest)
    IN  [t EXCEPT !.data = SubSeq(t.data, item.lo * width + 1,
                                  Min(item.hi * width, Len(t.data)))]

\* extrapolation[item]: none of the extrapolations depends on the position
Extrapolation__getitem__(e, item) == e

__getitem__(self, item) ==
    IF item.dims = {} THEN Returned(self)
    ELSE Field(Geometry__getitem__(self.geometry, item),
               Tensor__getitem__(self.values, item),
               Extrapolation__getitem__(self.boundary, item))

(***************************************************************************)
(* Objects.  To tell an object from an equal one, every object carries the  *)
(* name under which it was made: the parts of the Field f a method is       *)
(* called on, the arguments of the call, and "new" for what the call makes. *)
(* A method gives back the Field it was called on, as it is after the call, *)
(* and the object it returns.                                               *)
(***************************************************************************)
Obj(id, value) == [id |-> id, value |-> value]

FieldObject(id, geometry, values, boundary) ==
    [class |-> "Field", id |-> id, geometry |-> geometry, values |-> values,
     boundary |-> boundary]

Deref(f) == MkField(f.geometry.value, f.values.value, f.boundary.value)

Outcome(self, result) == [self |-> self, result |-> result]

\* the object a part of the new Field refers to: the object handed to the
\* constructor, unless the constructor had to make another one from it
\* (wrap, expand, as_boundary of a number)
Part(candidate, value) ==
    IF candidate.value = value THEN candidate ELSE Obj("new", value)

\* Field(geometry, values, boundary) on objects; r is what the constructor
\* returns or raises for their values
Built(r, geometry, values, boundary) ==
    IF r.tag = "raised" THEN r
    ELSE Returned(FieldObject("new",
                              Part(geometry, r.value.geometry),
                              Part(values, r.value.values),
                              Part(boundary, r.value.boundary)))

Object_with_values(self, values) ==
    Outcome(self, Built(with_values(Deref(self), values.value),
                        self.geometry, values, self.boundary))

\* mutant: the boundary of self is replaced in place and self is returned
Object_with_boundary_in_place(self, boundary) ==
    LET r == with_boundary(Deref(self), boundary.value)
        built == Built(r, self.geometry, self.values, boundary)
    IN  IF r.tag = "raised" THEN Outcome(self, r)
        ELSE LET changed == [built.value EXCEPT !.id = self.id]
             IN  Outcome(changed, Returned(changed))

Object_with_boundary(self, boundary) ==
    Outcome(self, Built(with_boundary(Deref(self), boundary.value),
                        self.geometry, self.values, boundary))

Object_with_geometry(self, elements) ==
    Outcome(self, Built(with_geometry(Deref(self), elements.value),
                        elements, self.values, self.boundary))

Object__getitem__(self, item) ==
    LET r == __getitem__(Deref(self), item)
    IN  IF item.dims = {} THEN Outcome(self, Returned(self))
        ELSE Outcome(self,
                     Built(r,
                           Obj("new", Geometry__getitem__(self.geometry.value,
                                                          item)),
                           Obj("new", Tensor__getitem__(self.values.value,
                                                        item)),
                           self.boundary))

\* call.to is the representation, call.keep the flag keep_extrapolation
Object_at(self, call) ==
    LET r == at(Deref(self), Deref(call.to), call.keep)
    IN  Outcome(self,
                Built(r, call.to.geometry,
                      IF r.tag = "returned" THEN Obj("new", r.value.values)
                                            ELSE self.values,
                      IF call.keep THEN self.boundary ELSE call.to.boundary))

\* the object an operator on extrapolations returns: a constant
\* extrapolation is made anew, a copying rule is the operand of that rule
Operated(value, first, second) ==
    IF IsConstant(value) THEN Obj("new", value)
    ELSE IF first.value = value THEN first
    ELSE IF second.value = value THEN second
    ELSE Obj("new", value)

\* call.o is the operator, call.other a Field object or a bare value
Object_op2(self, call) ==
    LET other == IF call.other.class = "Field"
                   THEN Deref(call.other) ELSE call.other
        r == _op2(Deref(self), other, call.o)
        made(part) == IF r.tag = "returned" THEN Obj("new", r.value[part])
                                            ELSE self[part]
        extrapolation_ ==
            IF r.tag = "returned"
              THEN Operated(r.value.boundary, self.boundary,
                            call.other.boundary)
              ELSE self.boundary
    IN  Outcome(self,
                Built(r, self.geometry, made("values"),
                      IF call.other.class = "Field" THEN extrapolation_
                                                    ELSE self.boundary))

Object_op1(self, o) ==
    LET r == _op1(Deref(self), o)
        made(part) == IF r.tag = "returned" THEN Obj("new", r.value[part])
                                            ELSE self[part]
        extrapolation_ ==
            IF r.tag = "returned"
              THEN Operated(r.value.boundary, self.boundary, self.boundary)
              ELSE self.boundary
    IN  Outcome(self, Built(r, self.geometry, made("values"), extrapolation_))

(***************************************************************************)
(* Specification of the calls on one Field: lhs is the Field f, every step  *)
(* calls one method of f; the calls follow each other in any order.         *)
(***************************************************************************)
AsObject(id, f) ==
    FieldObject(id, Obj(id \o "._geometry", f.geometry),
                Obj(id \o "._values", f.values),
                Obj(id \o "._boundary", f.boundary))

FieldObjects == {AsObject("f", f) : f \in AllOtherFields}

ValuesArguments(self) ==
    {Obj("values", wrap(Num(2))),
     Obj("values", [self.values.value EXCEPT
                        !.data = [i \in 1 .. Len(self.values.value.data) |->
                                     Num(2)]])}

BoundaryArguments ==
    {Obj("boundary", e) : e \in {ZERO, PERIODIC, BOUNDARY, Number(Num(2))}}

GeometryArguments(self) ==
    {Obj("elements", g) : g \in {self.geometry.value,
                                 Geometry(self.geometry.value.type,
                                          NextRes(self.geometry.value.n))}}

Items(self) ==
    {EmptyItem} \cup
    (IF self.geometry.value.type = "Cylinder" THEN {}
     ELSE {Slice(lo, lo + 1) : lo \in 0 .. self.geometry.value.n - 1})

Representations(self) ==
    {[to |-> AsObject("representation", f), keep |-> k] :
        f \in {Deref(self),
               MkField(self.geometry.value, self.values.value, ZERO)},
        k \in BOOLEAN}

Op2Arguments(self) ==
    {[o |-> o, other |-> other] :
        o \in {"add", "mul"},
        other \in {Number(Num(2)), AsObject("other", Deref(self))}}

\* the call of one method M of lhs with an argument drawn from arguments
Call(name, arguments, M(_, _)) ==
    \E a \in arguments :
        LET out == M(lhs, a)
        IN  /\ lhs' = out.self
            /\ rhs' = a
            /\ op' = name
            /\ res' = out.result

ImmutableInit ==
    /\ lhs \in FieldObjects
    /\ rhs = NoResult
    /\ op = "init"
    /\ res = NoResult

Call_with_values == Call("with_values", ValuesArguments(lhs), Object_with_values)

Call_with_boundary == Call("with_boundary", BoundaryArguments, Object_with_boundary)

Call_with_geometry == Call("with_geometry", GeometryArguments(lhs), Object_with_geometry)

Call__getitem__ == Call("getitem", Items(lhs), Object__getitem__)

Call_at == Call("at", Representations(lhs), Object_at)

Call_op2 == Call("op2", Op2Arguments(lhs), Object_op2)

Call_op1 == Call("op1", UnaryOps, Object_op1)

ImmutableNext ==
    \/ Call_with_values
    \/ Call_with_boundary
    \/ Call_with_geometry
    \/ Call__getitem__
    \/ Call_at
    \/ Call_op2
    \/ Call_op1

SpecImmutable == ImmutableInit /\ [][ImmutableNext]_vars

(***************************************************************************)
(* C19.  Fields are immutable: no call of with_values, with_boundary,       *)
(* with_geometry, slicing, at or an arithmetic operator on a Field f, in    *)
(* any sequence, changes the geometry, values or boundary of f, and the     *)
(* Field a call returns refers to the geometry and the boundary object of f *)
(* wherever the call did not replace that part.                             *)
(***************************************************************************)
C19_Shares ==
    res.tag = "returned" =>
        LET r == res.value
        IN  /\ op = "with_values" =>
                    r.geometry = lhs.geometry /\ r.boundary = lhs.boundary
            /\ op = "with_boundary" =>
                    /\ r.geometry = lhs.geometry
                    /\ rhs.value.class = "Extrapolation" => r.boundary = rhs
            /\ op = "with_geometry" =>
                    /\ r.geometry = rhs
                    /\ r.values = lhs.values
                    /\ r.boundary = lhs.boundary
            /\ (op = "getitem" /\ rhs = EmptyItem) => r = lhs
            /\ op = "at" =>
                    /\ r.geometry = rhs.to.geometry
                    /\ rhs.keep => r.boundary = lhs.boundary
            /\ op = "op2" =>
                    /\ r.geometry = lhs.geometry
                    /\ rhs.other.class # "Field" => r.boundary = lhs.boundary
            /\ op = "op1" => r.geometry = lhs.geometry

C19_Immutable == [][lhs' = lhs]_vars /\ [](lhs \in FieldObjects /\ C19_Shares)

C19_Witness ==
    /\ op = "with_boundary"
    /\ lhs.boundary.value = ONE
    /\ rhs = Obj("boundary", PERIODIC)
    /\ res.tag = "returned"
    /\ res.value.geometry = Obj("f._geometry", lhs.geometry.value)
    /\ res.value.boundary = Obj("boundary", PERIODIC)
    /\ res.value.values.id = "new"
    /\ lhs.boundary = Obj("f._boundary", ONE)

(***************************************************************************)
(* Field.bounds for a geometry without box bounds (geometry.bounds is not a *)
(* box): a cloud of spheres or of cylinders, one center per element.        *)
(***************************************************************************)
Cylinder(centers, radii, depths, rotation, axis, variables, values) ==
    [class |-> "Geometry", type |-> "Cylinder", center |-> centers,
     radius |-> radii, depth |-> depths, rotation |-> rotation, axis |-> axis,
     variables |-> variables, values |-> values]

CylinderVariables == <<"_center", "radius", "depth", "rotation">>

None == NoResult

\* math.length(vec(rad=radius, dep=.5 * depth))
Cylinder_bounding_radius(self) ==
    [i \in 1 .. Len(self.center) |->
        sqrt(NumAdd(NumMul(self.radius[i], self.radius[i]),
                    NumMul(NumMul(<<1, 2>>, self.depth[i]),
                           NumMul(<<1, 2>>, self.depth[i]))))]

\* math.ccat of the component along the axis of the cylinder and the radial
\* component, along the vector dimension (x, y): every component goes to
\* the item of its name, the one without a name to the item that is left
ccat(axial, radial, axis) ==
    IF axis = "x" THEN <<axial, radial>> ELSE <<radial, axial>>

\* per element, the components of the half extent along vector; a Sphere
\* gives its radius, which has no vector dimension
bounding_half_extent(g) ==
    IF g.type = "Sphere" THEN [i \in 1 .. Len(g.center) |-> <<g.radius[i]>>]
    ELSE IF g.rotation # None
      THEN [i \in 1 .. Len(g.center) |->
                <<Cylinder_bounding_radius(g)[i], Cylinder_bounding_radius(g)[i]>>]
      ELSE [i \in 1 .. Len(g.center) |->
                ccat(NumMul(<<1, 2>>, g.depth[i]), g.radius[i], g.axis)]

Box(lower, upper) == [class |-> "Box", lower |-> lower, upper |-> upper]

MinOf(S) == CHOOSE q \in S : \A p \in S : ~NumLess(p, q)

MaxOf(S) == CHOOSE q \in S : \A p \in S : ~NumLess(q, p)

\* center + extent, the vector dimension of extent turned into the dual
\* dimension ~_extent: one point per element, component and extent component
BoundsPoints(g, v) ==
    LET extent == bounding_half_extent(g)
    IN  {NumAdd(g.center[i][v], extent[i][e]) :
            i \in 1 .. Len(g.center), e \in 1 .. Len(extent[1])}

Field_bounds(self) ==
    Box([v \in 1 .. 2 |-> MinOf(BoundsPoints(self.geometry, v))],
        [v \in 1 .. 2 |-> MaxOf(BoundsPoints(self.geometry, v))])

(***************************************************************************)
(* Specification of Field.bounds: lhs is a Field on a cloud of spheres or   *)
(* cylinders, the step reads its bounds.                                    *)
(***************************************************************************)
Rotation == [class |-> "Tensor", kind |-> "rotation matrix", angle |-> Num(0)]

Cylinders ==
    {Cylinder(<<c>>, <<r>>, <<d>>, rot, "x", CylinderVariables, <<>>) :
        c \in SphereCenters, r \in {Num(3)}, d \in {Num(8), Num(2)},
        rot \in {None, Rotation}}
        \cup {Cylinder(<<<<Num(0), Num(0)>>, <<Num(1), Num(0)>>>>,
                       <<Num(3), Num(4)>>, <<Num(8), Num(6)>>, rot, "x",
                       CylinderVariables, <<>>) :
                 rot \in {None, Rotation}}

PointCloudFields ==
    {MkField(g, Tensor("points", {}, [i \in 1 .. Len(g.center) |-> Num(v)]), b) :
        g \in Spheres \cup Cylinders, v \in Val, b \in FieldBoundaries}

BoundsInit ==
    /\ lhs \in PointCloudFields
    /\ rhs = NoResult
    /\ op = "init"
    /\ res = NoResult

Field_bounds_get ==
    /\ op = "init"
    /\ rhs' = NoResult
    /\ op' = "bounds"
    /\ res' = Returned(Field_bounds(lhs))
    /\ UNCHANGED lhs

BoundsNext == Field_bounds_get

SpecBounds == BoundsInit /\ [][BoundsNext]_vars

(***************************************************************************)
(* C20.  For a Field whose geometry has no box bounds, Field.bounds is the  *)
(* box around every element: per axis, its lower corner is the minimum over *)
(* the elements of center - bounding_half_extent and its upper corner the   *)
(* maximum of center + bounding_half_extent.                                *)
(***************************************************************************)
C20_HalfExtent(g, i, v) ==
    LET extent == bounding_half_extent(g)[i]
    IN  IF Len(extent) = 1 THEN extent[1] ELSE extent[v]

C20_BoundsEnclose ==
    op = "bounds" =>
        LET g == lhs.geometry
            elements == 1 .. Len(g.center)
        IN  \A v \in 1 .. 2 :
              /\ res.value.lower[v] =
                    MinOf({NumSub(g.center[i][v], C20_HalfExtent(g, i, v)) :
                              i \in elements})
              /\ res.value.upper[v] =
                    MaxOf({NumAdd(g.center[i][v], C20_HalfExtent(g, i, v)) :
                              i \in elements})

(***************************************************************************)
(* C21.  For two Fields on different geometries and op in + - * /, the      *)
(* Field that f1 op f2 returns is on f1's geometry, is sampled where f1 is  *)
(* sampled (center or face), has at every sample point of f1 (the points    *)
(* that f1's boundary leaves) the value op(f1's value, f2 interpolated at   *)
(* that point) and has the extrapolation op(f1.extrapolation,               *)
(* f2.extrapolation); it is returned whenever the combined extrapolation    *)
(* exists and determines the boundaries that f1's does.                     *)
(***************************************************************************)
C21_Points ==
    get_sample_points(lhs.geometry, sampled_at(lhs), lhs.boundary)

C21_DifferentGeometryArithmetic ==
    (Called(ArithOps) /\ rhs.class = "Field" /\ rhs.geometry # lhs.geometry) =>
        LET e == ExtOp(op, lhs.boundary, rhs.boundary)
        IN  /\ ReturnedField =>
                /\ res.value.geometry = lhs.geometry
                /\ sampled_at(res.value) = sampled_at(lhs)
                /\ res.value.values.data =
                      [i \in 1 .. Len(C21_Points) |->
                          NumOp(op, lhs.values.data[i],
                                Interpolate(rhs, C21_Points[i]))]
                /\ res.value.boundary = e
            /\ (/\ IsExtrapolation(e)
                /\ DeterminedSides(lhs.geometry, e)
                      = DeterminedSides(lhs.geometry, lhs.boundary))
                  => ReturnedField

\* a staggered periodic Field plus a Field of another resolution whose
\* boundary determines both faces
C21_Witness ==
    /\ Called({"add"}) /\ rhs.class = "Field"
    /\ rhs.geometry.type = lhs.geometry.type /\ rhs.geometry.n # lhs.geometry.n
    /\ Field_is_staggered(lhs) /\ lhs.boundary = PERIODIC
    /\ rhs.boundary = ZERO
    /\ Len(lhs.values.data) = 2
    /\ \E i \in 1 .. Len(rhs.values.data) : rhs.values.data[i] # Num(0)
    /\ ReturnedField

(***************************************************************************)
(* C29.  The reflected operators keep the operand order: for a Field f and  *)
(* a bare number c, c - f has the values c - f.values and c / f has the     *)
(* values c / f.values; c + f and c * f have the values of f + c and f * c. *)
(***************************************************************************)
C29_Scalar == rhs.value

C29_ReflectedOperators ==
    (Called({"radd", "rsub", "rmul", "rtruediv"}) /\ rhs.class = "Number") =>
        /\ ReturnedField
        /\ \A i \in 1 .. Len(lhs.values.data) :
              res.value.values.data[i] =
                CASE op = "rsub"     -> NumSub(C29_Scalar, lhs.values.data[i])
                  [] op = "rtruediv" -> NumDiv(C29_Scalar, lhs.values.data[i])
                  [] op = "radd"     -> NumAdd(lhs.values.data[i], C29_Scalar)
                  [] op = "rmul"     -> NumMul(lhs.values.data[i], C29_Scalar)
        /\ op = "radd" => res = _op2(lhs, rhs, "add")
        /\ op = "rmul" => res = _op2(lhs, rhs, "mul")

\* 2 - f and 2 / f where f holds -1: 3 and -2, not -3 and -1/2
C29_Witness ==
    /\ Called({"rsub", "rtruediv"}) /\ rhs = Number(Num(2))
    /\ Len(lhs.values.data) >= 1
    /\ lhs.values.data[1] = Num(-1)
    /\ ReturnedField
    /\ res.value.values.data[1] \in {Num(3), Num(-2)}

(***************************************************************************)
(* The deprecated spellings of Field: >>, elements and closest_values.  A   *)
(* call is recorded with the categories of the warnings it emitted before   *)
(* it returned or raised.                                                   *)
(***************************************************************************)
Warned(categories, result) ==
    [class |-> "Call", warnings |-> categories, result |-> result]

__rshift__(self, other) ==
    Warned(<<"SyntaxWarning">>, at(self, other, FALSE))

elements(self) == Warned(<<"DeprecationWarning">>, Returned(self.geometry))

\* the names every Python object has
ObjectAttributes ==
    {"__class__", "__delattr__", "__dict__", "__dir__", "__doc__", "__eq__",
     "__format__", "__ge__", "__getattribute__", "__getstate__", "__gt__",
     "__hash__", "__init__", "__init_subclass__", "__le__", "__lt__",
     "__module__", "__ne__", "__new__", "__reduce__", "__reduce_ex__",
     "__repr__", "__setattr__", "__sizeof__", "__str__",
     "__subclasshook__", "__weakref__"}

\* the names the normal lookup finds on a Field: the attributes that
\* __init__ assigns, the methods, properties and class attributes of the
\* class Field and the names of every object
FieldAttributes ==
    {"_boundary", "_geometry", "_values"} \cup ObjectAttributes \cup
    {"__init__", "geometry", "mesh", "graph", "faces", "face_centers",
     "face_normals", "face_areas", "sampled_elements", "elements",
     "is_centered", "is_staggered", "center", "points", "values", "data",
     "uniform_values", "boundary", "extrapolation", "shape", "resolution",
     "spatial_rank", "bounds", "box", "is_grid", "is_mesh", "is_point_cloud",
     "dx", "cells", "at_centers", "at_faces", "sampled_at", "at",
     "closest_values", "with_values", "with_boundary", "with_extrapolation",
     "with_bounds", "with_geometry", "with_elements", "shifted", "pad",
     "gradient", "divergence", "curl", "laplace", "downsample",
     "staggered_tensor", "__stack__", "__concat__", "__and__", "__matmul__",
     "__rmatmul__", "__rshift__", "__rrshift__", "__getitem__",
     "__getattr__", "dimension", "__value_attrs__", "__variable_attrs__",
     "__expand__", "__replace_dims__", "__eq__", "__mul__", "__rmul__",
     "__truediv__", "__rtruediv__", "__sub__", "__rsub__", "__add__",
     "__radd__", "__pow__", "__neg__", "__gt__", "__ge__", "__lt__",
     "__le__", "__abs__", "_op1", "_op2", "__repr__", "grid_scatter"}

BoundDim(obj, name) == [class |-> "BoundDim", obj |-> obj, name |-> name]

__getattr__(self, name) == BoundDim(self, name)

\* self.<name>: __getattr__ is called when the normal lookup fails
getattr(self, name) ==
    IF name \in FieldAttributes
      THEN [class |-> "Attribute", obj |-> self, name |-> name]
      ELSE __getattr__(self, name)

is_grid(self) == self.geometry.type = "UniformGrid"

\* Field.resolution of a grid: the number of cells along x
resolution(self) == self.geometry.n

\* geometry.bounds of a grid: the unit interval its cells divide
Grid_bounds(g) == Box(<<Num(0)>>, <<Num(1)>>)

\* Box.global_to_local: the position relative to the box, 0 at the lower
\* and 1 at the upper corner
global_to_local(box, p) ==
    NumDiv(NumSub(p, box.lower[1]), NumSub(box.upper[1], box.lower[1]))

floor(q) == q[1] \div q[2]

\* the value of a grid at index j (counted from 0): inside the grid the
\* stored value, outside of it what the extrapolation pads the grid with
GridValue(values, j, e) ==
    LET k == Len(values.data)
    IN  IF j >= 0 /\ j < k THEN values.data[j + 1]
        ELSE IF IsConstant(e) THEN e.value
        ELSE PadValue(e, values.data, IF j < 0 THEN "lower" ELSE "upper")

ClosestDim == Dim("closest_x", 2)

\* math.closest_grid_values: for every point, given in index space, the
\* values of the grid at the two indices around it along closest_x
closest_grid_values(values, local_points, extrapolation_) ==
    TensorOver(<<Dim(local_points.dim, Len(local_points.data)), ClosestDim>>,
               values.names,
               [c \in 1 .. 2 * Len(local_points.data) |->
                   GridValue(values,
                             floor(local_points.data[(c + 1) \div 2])
                                + ((c + 1) % 2),
                             extrapolation_)])

\* mutant: the deprecation is raised instead of warned about
closest_values_deprecation_raised(self, points) ==
    Warned(<<"DeprecationWarning">>, Raised("DeprecationWarning"))

\* Field.closest_values of a grid Field, for points inside of its bounds
closest_values(self, points) ==
    LET points_ == IF points.class = "Geometry"
                     THEN Tensor(non_channel_dim(points), {"vector"},
                                 center(points))
                     ELSE points
        box == Grid_bounds(self.geometry)
        local_points ==
            [points_ EXCEPT
                !.data = [i \in 1 .. Len(points_.data) |->
                            NumSub(NumMul(global_to_local(box, points_.data[i]),
                                          Num(resolution(self))),
                                   <<1, 2>>)]]
    IN  Warned(<<"DeprecationWarning">>,
               Returned(closest_grid_values(self.values, local_points,
                                            self.boundary)))

(***************************************************************************)
(* Specification of the deprecated spellings: lhs is a Field, a step uses   *)
(* one of the spellings.  closest_values gathers along the spatial          *)
(* dimensions of the values, so it is called on grid Fields.                *)
(***************************************************************************)
DeprecatedInit ==
    /\ lhs \in Fields
    /\ rhs = NoResult
    /\ op = "init"
    /\ res = NoResult

Field__rshift__ ==
    /\ op = "init"
    /\ \E other \in OtherFields(lhs) \cup {lhs} :
            /\ rhs' = other
            /\ op' = "rshift"
            /\ res' = __rshift__(lhs, other)
            /\ UNCHANGED lhs

Field_elements ==
    /\ op = "init"
    /\ rhs' = NoResult
    /\ op' = "elements"
    /\ res' = elements(lhs)
    /\ UNCHANGED lhs

ClosestPoints(self) ==
    {self.geometry, Tensor("points", {"vector"}, <<Num(0)>>),
     Tensor("points", {"vector"}, <<<<1, 2>>, Num(1)>>)}

Field_closest_values ==
    /\ op = "init"
    /\ is_grid(lhs)
    /\ \E points \in ClosestPoints(lhs) :
            /\ rhs' = points
            /\ op' = "closest_values"
            /\ res' = closest_values(lhs, points)
            /\ UNCHANGED lhs

DeprecatedNext == Field__rshift__ \/ Field_elements \/ Field_closest_values

SpecDeprecated == DeprecatedInit /\ [][DeprecatedNext]_vars

(***************************************************************************)
(* C24.  The deprecated spellings work and only warn: f >> other warns and  *)
(* gives what f.at(other, keep_extrapolation=False) gives, f.elements warns *)
(* of the deprecation and returns f.geometry, f.closest_values(points)      *)
(* warns of the deprecation and returns two values for every point, for a   *)
(* centered grid those of the two grid points around the point (the         *)
(* extrapolation where there is none).                                      *)
(***************************************************************************)
C24_Points ==
    IF rhs.class = "Geometry" THEN center(rhs) ELSE rhs.data

\* the index (counted from 1) of the last grid point of lhs that is not to
\* the right of point p; grid point i lies at (2 i - 1) / (2 n)
C24_Left(p) ==
    CHOOSE i \in 0 .. lhs.geometry.n :
        /\ i > 0 => ~NumLess(p, Norm(2 * i - 1, 2 * lhs.geometry.n))
        /\ i < lhs.geometry.n => NumLess(p, Norm(2 * i + 1, 2 * lhs.geometry.n))

C24_DeprecatedSpellings ==
    /\ op = "rshift" =>
            /\ res.warnings # <<>>
            /\ res.result = at(lhs, rhs, FALSE)
    /\ op = "elements" =>
            /\ res.warnings = <<"DeprecationWarning">>
            /\ res.result = Returned(lhs.geometry)
    /\ op = "closest_values" =>
            /\ res.warnings = <<"DeprecationWarning">>
            /\ res.result.tag = "returned"
            /\ Len(res.result.value.data) = 2 * Len(C24_Points)
            /\ is_centered(lhs) =>
               \A j \in 1 .. Len(C24_Points), side \in 0 .. 1 :
                  LET i == C24_Left(C24_Points[j]) + side
                      value == res.result.value.data[2 * (j - 1) + side + 1]
                  IN  /\ i \in 1 .. Len(lhs.values.data) =>
                            value = lhs.values.data[i]
                      /\ (i \notin 1 .. Len(lhs.values.data)
                            /\ IsConstant(lhs.boundary)) =>
                            value = lhs.boundary.value

\* the closest values of a centered grid of two cells holding -1 and 0 at
\* its own centers, outside of it 1: (-1, 0) and (0, 1)
C24_Witness ==
    /\ op = "closest_values" /\ rhs = lhs.geometry
    /\ lhs.geometry.n = 2 /\ is_centered(lhs) /\ lhs.boundary = ONE
    /\ lhs.values.data = <<Num(-1), Num(0)>>
    /\ res.result.tag = "returned"
    /\ res.result.value.data = <<Num(-1), Num(0), Num(0), Num(1)>>

(***************************************************************************)
(* Cylinders (src/phi/geom/_cylinder.py) in the plane, vector = (x, y).     *)
(* An angle is a number of quarter turns, so that its rotation matrix is    *)
(* exact; a rotation matrix has the dimensions vector and ~vector.          *)
(***************************************************************************)
Angle(quarters) == [class |-> "Tensor", names |-> {}, quarters |-> quarters]

Matrix(rows) ==
    [class |-> "Tensor", names |-> {"vector", "~vector"}, rows |-> rows]

cos(angle) ==
    CASE angle.quarters % 4 = 0 -> Num(1)
      [] angle.quarters % 4 = 2 -> Num(-1)
      [] OTHER -> Num(0)

sin(angle) ==
    CASE angle.quarters % 4 = 1 -> Num(1)
      [] angle.quarters % 4 = 3 -> Num(-1)
      [] OTHER -> Num(0)

\* math.rotation_matrix: None for None, a matrix as it is, the matrix of an
\* angle
rotation_matrix(x) ==
    IF x = None THEN None
    ELSE IF dual(x) # {} THEN x
    ELSE Matrix(<<<<cos(x), NumNeg(sin(x))>>, <<sin(x), cos(x)>>>>)

\* a @ b
MatMul(a, b) ==
    Matrix([i \in 1 .. 2 |->
              [j \in 1 .. 2 |->
                  NumAdd(NumMul(a.rows[i][1], b.rows[1][j]),
                         NumMul(a.rows[i][2], b.rows[2][j]))]])

\* math.rotate_vector
rotate_vector(v, rot, invert) ==
    IF rot = None THEN v
    ELSE LET m == IF invert
                    THEN [i \in 1 .. 2 |-> [j \in 1 .. 2 |-> rot.rows[j][i]]]
                    ELSE rot.rows
         IN  [i \in 1 .. 2 |->
                NumAdd(NumMul(m[i][1], v[1]), NumMul(m[i][2], v[2]))]

Cylinder_rotated(self, angle) ==
    IF self.rotation = None
      THEN Cylinder(self.center, self.radius, self.depth, angle, self.axis,
                    self.variables, self.values)
      ELSE LET matrix ==
                   MatMul(self.rotation,
                          IF dual(angle) # {} THEN angle
                          ELSE rotation_matrix(angle))
           IN  Cylinder(self.center, self.radius, self.depth, matrix,
                        self.axis, self.variables, self.values)

\* the fields of the dataclass Cylinder
CylinderFields ==
    {"_center", "radius", "depth", "rotation", "axis", "variables", "values"}

\* the names the decorator dataclass adds to the class
DataclassAttributes ==
    {"__dataclass_fields__", "__dataclass_params__", "__match_args__"}

\* the names of the base class Geometry that the library reads on a geometry
GeometryAttributes == {"spatial_rank", "rank", "bounds", "shifted"}

\* the properties of Cylinder that raise when they are read: volume calls
\* Sphere.volume_from_radius, which Sphere does not define, the properties
\* of the faces are not implemented
CylinderRaising ==
    [name \in {"volume", "faces", "face_centers", "face_areas",
               "face_normals"} |->
        IF name = "volume" THEN "AttributeError" ELSE "NotImplementedError"]

\* the names the lookup finds on a Cylinder: the fields of the dataclass
\* and their annotations, the properties and methods of the class and
\* those of its base class
CylinderAttributes ==
    CylinderFields \cup DataclassAttributes \cup GeometryAttributes
        \cup ObjectAttributes \cup
    {"__annotations__", "_center", "radius", "depth", "rotation", "axis", "variables", "values",
     "center", "shape", "radial_axes", "volume", "up", "lies_inside",
     "approximate_signed_distance", "approximate_closest_surface",
     "sample_uniform", "bounding_radius", "bounding_half_extent", "at",
     "rotated", "scaled", "__getitem__", "__stack__", "faces",
     "face_centers", "face_areas", "face_normals", "boundary_elements",
     "boundary_faces", "face_shape", "corners", "__eq__"}

\* self.<name>: the value of a field (the names of the fields are those of
\* the record, but for _center, which the record holds as center), what a
\* property raises when it is read, the property or method of another name
Cylinder_getattr(self, name) ==
    IF name \notin CylinderAttributes THEN Raised("AttributeError")
    ELSE IF name = "_center" THEN Returned(self.center)
    ELSE IF name \in CylinderFields THEN Returned(self[name])
    ELSE IF name \in DOMAIN CylinderRaising
      THEN Raised(CylinderRaising[name])
    ELSE Returned([class |-> "Attribute", obj |-> self, name |-> name])

\* a slice lo:hi along the instance dimension of the cylinder, or no
\* selection
InstanceSlice(lo, hi) ==
    [class |-> "dict", dims |-> {"instance"}, lo |-> lo, hi |-> hi]

SeqItem(seq, item) ==
    IF item.dims = {} THEN seq
    ELSE SubSeq(seq, item.lo + 1, Min(item.hi, Len(seq)))

\* math.slice of a rotation: None stays None, a matrix has no instance
\* dimension
math_slice(rotation, item) == rotation

\* Cylinder.__getitem__: the arguments of the constructor are evaluated
\* from left to right
Cylinder__getitem__(self, item) ==
    LET variables == Cylinder_getattr(self, "_variables")
        values    == Cylinder_getattr(self, "values")
    IN  IF variables.tag = "raised" THEN variables
        ELSE Returned(Cylinder(SeqItem(self.center, item),
                               SeqItem(self.radius, item),
                               SeqItem(self.depth, item),
                               math_slice(self.rotation, item), self.axis,
                               variables.value, values.value))

(***************************************************************************)
(* The queries of a Cylinder.  Every instance is looked at in its local     *)
(* frame: h is the component of the position along the axis, r the radial   *)
(* component, a vector of one component in the plane.                       *)
(***************************************************************************)
Axial(v, axis) == IF axis = "x" THEN v[1] ELSE v[2]

Radial(v, axis) == IF axis = "x" THEN v[2] ELSE v[1]

LocalPosition(self, i, location) ==
    rotate_vector(VecSub(location, self.center[i]), self.rotation, TRUE)

length(v) == sqrt(vec_squared(v))

\* length and normalize of the radial vector; a vector shorter than epsilon
\* is normalized to the first unit vector
length1(r) == sqrt(NumMul(r, r))

Epsilon == <<1, 100000>>

normalize(r) ==
    IF NumLess(NumAbs(r), Epsilon) THEN Num(1) ELSE NumDiv(r, length1(r))

clip(h, lower, upper) ==
    IF NumLess(h, lower) THEN lower ELSE IF NumLess(upper, h) THEN upper ELSE h

VecNeg(v) == <<NumNeg(v[1]), NumNeg(v[2])>>

up(self) == rotate_vector(ccat(Num(1), Num(0), self.axis), self.rotation, FALSE)

InsideInstance(self, i, location) ==
    LET pos == LocalPosition(self, i, location)
        r == Radial(pos, self.axis)
        h == Axial(pos, self.axis)
        half == NumMul(<<1, 2>>, self.depth[i])
    IN  /\ ~NumLess(NumMul(self.radius[i], self.radius[i]), NumMul(r, r))
        /\ ~NumLess(h, NumNeg(half))
        /\ ~NumLess(half, h)

\* math.any over the instances
Cylinder_lies_inside(self, location) ==
    \E i \in 1 .. Len(self.center) : InsideInstance(self, i, location)

\* mutant: the smaller of the radial and the axial distance
Cylinder_approximate_signed_distance_minimum(self, location) ==
    MinOver([i \in 1 .. Len(self.center) |->
        LET pos == LocalPosition(self, i, location)
            r == Radial(pos, self.axis)
            h == Axial(pos, self.axis)
            top_h == NumMul(<<1, 2>>, self.depth[i])
            sgn_dist_side == NumSub(NumAbs(h), top_h)
            sgn_dist_cyl == NumSub(length1(r), self.radius[i])
        IN  IF NumLess(sgn_dist_cyl, sgn_dist_side)
              THEN sgn_dist_cyl ELSE sgn_dist_side])

Cylinder_approximate_signed_distance(self, location) ==
    MinOver([i \in 1 .. Len(self.center) |->
        LET pos == LocalPosition(self, i, location)
            r == Radial(pos, self.axis)
            h == Axial(pos, self.axis)
            top_h == NumMul(<<1, 2>>, self.depth[i])
            sgn_dist_side == NumSub(NumAbs(h), top_h)
            sgn_dist_cyl == NumSub(length1(r), self.radius[i])
        IN  maximum(sgn_dist_cyl, sgn_dist_side)])

\* lines 79 to 109 of approximate_closest_surface for the instance i
ClosestSurface(self, i, location) ==
    LET pos == LocalPosition(self, i, location)
        r == Radial(pos, self.axis)
        h == Axial(pos, self.axis)
        top_h == NumMul(<<1, 2>>, self.depth[i])
        bot_h == NumNeg(top_h)
        radial_outward == normalize(r)
        surf_r == NumMul(radial_outward, self.radius[i])
        inside_cyl == ~NumLess(NumMul(self.radius[i], self.radius[i]),
                               NumMul(r, r))
        clamped_r == IF inside_cyl THEN r ELSE surf_r
        above == ~NumLess(h, Num(0))
        flat_h == IF above THEN top_h ELSE bot_h
        on_flat == ccat(flat_h, clamped_r, self.axis)
        normal_flat == IF above THEN up(self) ELSE VecNeg(up(self))
        clamped_h == clip(h, bot_h, top_h)
        on_cyl == ccat(clamped_h, surf_r, self.axis)
        normal_cyl == ccat(Num(0), radial_outward, self.axis)
        d_flat == length(VecSub(on_flat, pos))
        d_cyl == length(VecSub(on_cyl, pos))
        flat_closer == ~NumLess(d_cyl, d_flat)
        surf_point == IF flat_closer THEN on_flat ELSE on_cyl
        inside == inside_cyl /\ ~NumLess(h, bot_h) /\ ~NumLess(top_h, h)
        sgn_dist == NumMul(IF NumLess(d_cyl, d_flat) THEN d_cyl ELSE d_flat,
                           IF inside THEN Num(-1) ELSE Num(1))
        delta == VecSub(surf_point, pos)
        normal == IF flat_closer THEN normal_flat ELSE normal_cyl
    IN  [sgn_dist |-> sgn_dist,
         delta |-> rotate_vector(delta, self.rotation, FALSE),
         normal |-> rotate_vector(normal, self.rotation, FALSE)]

\* the instance dimensions of a cylinder
instance(self) == IF Len(self.center) > 1 THEN {"points"} ELSE {}

\* math.at_min along the instance dimension: the values at the first of
\* the instances with the least key
at_min(values, key) ==
    LET least == MinOver(key)
        i == CHOOSE i \in 1 .. Len(key) :
                /\ key[i] = least
                /\ \A j \in 1 .. i - 1 : key[j] # least
    IN  values[i]

\* mutant: the instances are keyed on the distance without its sign
Cylinder_approximate_closest_surface_unsigned(self, location) ==
    LET each == [i \in 1 .. Len(self.center) |->
                    ClosestSurface(self, i, location)]
        chosen == IF instance(self) # {}
                    THEN at_min(each, [i \in 1 .. Len(each) |->
                                          NumAbs(each[i].sgn_dist)])
                    ELSE each[1]
    IN  [class |-> "tuple", sgn_dist |-> chosen.sgn_dist,
         delta |-> chosen.delta, normal |-> chosen.normal,
         face_index |-> None, weights |-> None]

Cylinder_approximate_closest_surface(self, location) ==
    LET each == [i \in 1 .. Len(self.center) |->
                    ClosestSurface(self, i, location)]
        chosen == IF instance(self) # {}
                    THEN at_min(each, [i \in 1 .. Len(each) |->
                                          each[i].sgn_dist])
                    ELSE each[1]
    IN  [class |-> "tuple", sgn_dist |-> chosen.sgn_dist,
         delta |-> chosen.delta, normal |-> chosen.normal,
         face_index |-> None, weights |-> None]

(***************************************************************************)
(* Cylinder.__stack__ for geometries of one instance each.  tuple(set) has  *)
(* no order of its own: the orders of the two attribute lists are given.    *)
(***************************************************************************)
\* math.rotation_angles of a rotation matrix
rotation_angles(matrix) ==
    CHOOSE a \in {Angle(k) : k \in 0 .. 3} : rotation_matrix(a) = matrix

AngleTimes(angle, factor) == Angle(angle.quarters * factor)

\* math.stack of one value per geometry along the new dimension
math_stack(items) ==
    [class |-> "Tensor", names |-> {"vector", "~vector", "stack"},
     items |-> items]

\* Geometry.__stack__: the geometries as they are, side by side
Geometry__stack__(values) ==
    [class |-> "Geometry", type |-> "GeometryStack", geometries |-> values]

SetOf(seq) == {seq[i] : i \in 1 .. Len(seq)}

\* the tuples that hold the elements of S once each
TuplesOf(S) ==
    {t \in [1 .. Cardinality(S) -> S] : SetOf(t) = S}

\* mutant: only the axis of the first geometry is looked at
Cylinder__stack__first_axis(values, var_attrs, val_attrs) ==
    IF \A i \in 1 .. Len(values) : values[i].type = "Cylinder" THEN
        LET rotation ==
                IF \E i \in 1 .. Len(values) : values[i].rotation # None THEN
                    LET first == CHOOSE i \in 1 .. Len(values) :
                                    /\ values[i].rotation # None
                                    /\ \A j \in 1 .. i - 1 :
                                          values[j].rotation = None
                        any_angle == rotation_angles(values[first].rotation)
                        unit_matrix == rotation_matrix(AngleTimes(any_angle, 0))
                    IN  math_stack([i \in 1 .. Len(values) |->
                                      IF values[i].rotation = None
                                        THEN unit_matrix
                                        ELSE values[i].rotation])
                ELSE None
        IN  Cylinder([i \in 1 .. Len(values) |-> values[i].center[1]],
                     [i \in 1 .. Len(values) |-> values[i].radius[1]],
                     [i \in 1 .. Len(values) |-> values[i].depth[1]],
                     rotation, values[1].axis, var_attrs, val_attrs)
    ELSE Geometry__stack__(values)

Cylinder__stack__(values, var_attrs, val_attrs) ==
    IF /\ \A i \in 1 .. Len(values) : values[i].type = "Cylinder"
       /\ \A i \in 1 .. Len(values) : values[i].axis = values[1].axis
    THEN
        LET rotation ==
                IF \E i \in 1 .. Len(values) : values[i].rotation # None THEN
                    LET first == CHOOSE i \in 1 .. Len(values) :
                                    /\ values[i].rotation # None
                                    /\ \A j \in 1 .. i - 1 :
                                          values[j].rotation = None
                        any_angle == rotation_angles(values[first].rotation)
                        unit_matrix == rotation_matrix(AngleTimes(any_angle, 0))
                    IN  math_stack([i \in 1 .. Len(values) |->
                                      IF values[i].rotation = None
                                        THEN unit_matrix
                                        ELSE values[i].rotation])
                ELSE None
        IN  Cylinder([i \in 1 .. Len(values) |-> values[i].center[1]],
                     [i \in 1 .. Len(values) |-> values[i].radius[1]],
                     [i \in 1 .. Len(values) |-> values[i].depth[1]],
                     rotation, values[1].axis, var_attrs, val_attrs)
    ELSE Geometry__stack__(values)

(***************************************************************************)
(* Specification of the Cylinder operations: lhs is a cylinder, a step      *)
(* rotates it, slices it, stacks it with another geometry or asks one query *)
(* at one location.                                                         *)
(***************************************************************************)
MaxTurns == 3

MaxCoordinate == 4

Angles == {Angle(k) : k \in 0 .. MaxTurns}

Rotations == {None} \cup {rotation_matrix(a) : a \in Angles}

CylinderCenters == {<<Num(0), Num(0)>>, <<Num(1), Num(0)>>}

\* single cylinders, and two cylinders along an instance dimension that
\* are apart, touch or are the same
SingleCylinders ==
    {Cylinder(<<c>>, <<Num(r)>>, <<Num(d)>>, rot, axis, CylinderVariables, <<>>) :
        c \in CylinderCenters, r \in {1, 2}, d \in {2, 4}, rot \in Rotations,
        axis \in {"x", "y"}}

InstanceCylinders ==
    {Cylinder(<<<<Num(0), Num(0)>>, <<Num(c), Num(0)>>>>, <<Num(1), Num(r)>>,
              <<Num(2), Num(2)>>, rot, axis, CylinderVariables, <<>>) :
        c \in {0, 2, 3}, r \in {1, 2},
        rot \in {None, rotation_matrix(Angle(1))}, axis \in {"x", "y"}}

QueryCylinders == SingleCylinders \cup InstanceCylinders

\* the locations: steps of one half along both axes
Lattice ==
    {<<Norm(a, 2), Norm(b, 2)>> :
        a \in (0 - 2 * MaxCoordinate) .. (2 * MaxCoordinate),
        b \in (0 - 2 * MaxCoordinate) .. (2 * MaxCoordinate)}

IsSquare(q) == NumMul(sqrt(q), sqrt(q)) = q

\* the locations at which every length that a query of self takes is
\* rational
ExactAt(self, location) ==
    \A i \in 1 .. Len(self.center) :
        LET pos == LocalPosition(self, i, location)
            r == Radial(pos, self.axis)
            h == Axial(pos, self.axis)
            top_h == NumMul(<<1, 2>>, self.depth[i])
            out_r == IF NumLess(self.radius[i], NumAbs(r))
                       THEN NumSub(NumAbs(r), self.radius[i]) ELSE Num(0)
            out_h == IF NumLess(top_h, NumAbs(h))
                       THEN NumSub(NumAbs(h), top_h) ELSE Num(0)
            to_flat == NumSub(NumAbs(h), top_h)
        IN  /\ IsSquare(NumAdd(NumMul(out_r, out_r), NumMul(to_flat, to_flat)))
            /\ IsSquare(NumAdd(NumMul(out_r, out_r), NumMul(out_h, out_h)))

CylinderLocations(self) == {l \in Lattice : ExactAt(self, l)}

CylinderItems ==
    {EmptyItem, InstanceSlice(0, 1), InstanceSlice(1, 2), InstanceSlice(0, 2)}

\* the geometries a cylinder is stacked with
StackPartners ==
    {Cylinder(<<<<Num(1), Num(0)>>>>, <<Num(2)>>, <<Num(4)>>, rot, axis,
              variables, <<>>) :
        rot \in {None, rotation_matrix(Angle(1)), rotation_matrix(Angle(2))},
        axis \in {"x", "y"},
        variables \in {CylinderVariables, <<"radius">>}}
      \cup {Sphere(<<<<Num(1), Num(0)>>>>, <<Num(2)>>)}

CylinderInit ==
    /\ lhs \in QueryCylinders
    /\ rhs = NoResult
    /\ op = "init"
    /\ res = NoResult

CylinderRotated ==
    /\ op = "init"
    /\ \E angle \in Angles \cup (Rotations \ {None}) :
            /\ rhs' = angle
            /\ op' = "rotated"
            /\ res' = Returned(Cylinder_rotated(lhs, angle))
            /\ UNCHANGED lhs

CylinderGetItem ==
    /\ op = "init"
    /\ \E item \in CylinderItems :
            /\ rhs' = item
            /\ op' = "getitem"
            /\ res' = Cylinder__getitem__(lhs, item)
            /\ UNCHANGED lhs

CylinderLiesInside ==
    /\ op = "init"
    /\ \E location \in CylinderLocations(lhs) :
            /\ rhs' = location
            /\ op' = "lies_inside"
            /\ res' = Returned(bool(Cylinder_lies_inside(lhs, location)))
            /\ UNCHANGED lhs

CylinderApproximateSignedDistance ==
    /\ op = "init"
    /\ \E location \in CylinderLocations(lhs) :
            /\ rhs' = location
            /\ op' = "approximate_signed_distance"
            /\ res' = Returned(Cylinder_approximate_signed_distance(lhs,
                                                                    location))
            /\ UNCHANGED lhs

CylinderApproximateClosestSurface ==
    /\ op = "init"
    /\ \E location \in CylinderLocations(lhs) :
            /\ rhs' = location
            /\ op' = "approximate_closest_surface"
            /\ res' = Returned(Cylinder_approximate_closest_surface(lhs,
                                                                    location))
            /\ UNCHANGED lhs

\* stack([lhs, other]) and stack([other, lhs]) for a cylinder of one instance
CylinderStack ==
    /\ op = "init"
    /\ Len(lhs.center) = 1
    /\ \E other \in StackPartners :
        \E values \in {<<lhs, other>>, <<other, lhs>>} :
          LET cylinders == {i \in 1 .. 2 : values[i].type = "Cylinder"}
              var_attrs == UNION {SetOf(values[i].variables) : i \in cylinders}
              val_attrs == UNION {SetOf(values[i].values) : i \in cylinders}
          IN  \E variables \in TuplesOf(var_attrs),
                   vals \in TuplesOf(val_attrs) :
                /\ rhs' = values
                /\ op' = "stack"
                /\ res' = Returned(Cylinder__stack__(values, variables, vals))
                /\ UNCHANGED lhs

CylinderNext ==
    \/ CylinderRotated
    \/ CylinderGetItem
    \/ CylinderLiesInside
    \/ CylinderApproximateSignedDistance
    \/ CylinderApproximateClosestSurface
    \/ CylinderStack

SpecCylinder == CylinderInit /\ [][CylinderNext]_vars

(***************************************************************************)
(* C22.  Cylinder.rotated stores a rotation matrix for an angle and for a   *)
(* matrix: the matrix of the argument for a cylinder without rotation, the  *)
(* product of the rotation of the cylinder and the matrix of the argument   *)
(* otherwise; center, radius, depth and axis are those of the cylinder.     *)
(***************************************************************************)
C22_RotatedStoresMatrix ==
    op = "rotated" =>
        LET matrix == rotation_matrix(rhs)
            rotated == res.value
        IN  /\ dual(rotated.rotation) # {}
            /\ rotated.rotation =
                    IF lhs.rotation = None THEN matrix
                    ELSE MatMul(lhs.rotation, matrix)
            /\ rotated.center = lhs.center
            /\ rotated.radius = lhs.radius
            /\ rotated.depth = lhs.depth
            /\ rotated.axis = lhs.axis

(***************************************************************************)
(* C23.  Slicing a Cylinder returns a Cylinder of the same axis, whose      *)
(* center, radius, depth and rotation are the sliced ones of the cylinder   *)
(* and whose lists variables and values are those of the cylinder.          *)
(***************************************************************************)
C23_SliceKeepsCylinder ==
    op = "getitem" =>
        /\ res.tag = "returned"
        /\ res.value.type = "Cylinder"
        /\ res.value.axis = lhs.axis
        /\ res.value.center = SeqItem(lhs.center, rhs)
        /\ res.value.radius = SeqItem(lhs.radius, rhs)
        /\ res.value.depth = SeqItem(lhs.depth, rhs)
        /\ res.value.rotation = lhs.rotation
        /\ res.value.variables = lhs.variables
        /\ res.value.values = lhs.values

(***************************************************************************)
(* C25.  approximate_signed_distance of a Cylinder is, for every instance,  *)
(* the larger of the radial distance |r| - radius and the axial distance    *)
(* |h| - depth / 2 in the frame of the cylinder, and the least of these     *)
(* over the instances; for a single cylinder it is not positive exactly at  *)
(* the locations that lie inside.                                           *)
(***************************************************************************)
C25_RadialDistance(i) ==
    NumSub(NumAbs(Radial(LocalPosition(lhs, i, rhs), lhs.axis)), lhs.radius[i])

C25_AxialDistance(i) ==
    NumSub(NumAbs(Axial(LocalPosition(lhs, i, rhs), lhs.axis)),
           NumMul(<<1, 2>>, lhs.depth[i]))

C25_Distance(i) ==
    IF NumLess(C25_RadialDistance(i), C25_AxialDistance(i))
      THEN C25_AxialDistance(i) ELSE C25_RadialDistance(i)

C25_CylinderSignedDistance ==
    op = "approximate_signed_distance" =>
        LET instances == 1 .. Len(lhs.center)
        IN  /\ \E i \in instances : res.value = C25_Distance(i)
            /\ \A i \in instances : ~NumLess(C25_Distance(i), res.value)
            /\ Len(lhs.center) = 1 =>
                  (~NumLess(Num(0), res.value) <=> Cylinder_lies_inside(lhs, rhs))

\* inside a rotated cylinder, closer to a cap than to the lateral surface
C25_Witness ==
    /\ op = "approximate_signed_distance"
    /\ Len(lhs.center) = 1
    /\ lhs.rotation = rotation_matrix(Angle(1))
    /\ NumLess(res.value, Num(0))
    /\ NumLess(C25_RadialDistance(1), C25_AxialDistance(1))
    /\ res.value = C25_AxialDistance(1)

(***************************************************************************)
(* C26.  approximate_closest_surface of a single Cylinder takes the closest *)
(* point on the cap of the side of the location and the closest point on    *)
(* the lateral surface and chooses the one at the smaller Euclidean         *)
(* distance, the cap on a tie: the signed distance is that distance,        *)
(* negated inside the cylinder, delta leads from the location to the chosen *)
(* point, and the normal is the normal of the chosen surface there: the     *)
(* direction of the axis (up or down) on a cap, the radial direction on the *)
(* lateral surface, both in the frame of the location.                      *)
(***************************************************************************)
C26_Position == LocalPosition(lhs, 1, rhs)

C26_h == Axial(C26_Position, lhs.axis)

C26_r == Radial(C26_Position, lhs.axis)

C26_Top == NumMul(<<1, 2>>, lhs.depth[1])

C26_Outward == IF NumLess(C26_r, Num(0)) THEN Num(-1) ELSE Num(1)

C26_OnCap ==
    ccat(IF NumLess(C26_h, Num(0)) THEN NumNeg(C26_Top) ELSE C26_Top,
         clip(C26_r, NumNeg(lhs.radius[1]), lhs.radius[1]), lhs.axis)

C26_OnLateral ==
    ccat(clip(C26_h, NumNeg(C26_Top), C26_Top),
         NumMul(C26_Outward, lhs.radius[1]), lhs.axis)

C26_SquaredDistance(point) == vec_squared(VecSub(point, C26_Position))

C26_CapChosen ==
    ~NumLess(C26_SquaredDistance(C26_OnLateral), C26_SquaredDistance(C26_OnCap))

C26_Chosen == IF C26_CapChosen THEN C26_OnCap ELSE C26_OnLateral

C26_Inside ==
    /\ ~NumLess(lhs.radius[1], NumAbs(C26_r))
    /\ ~NumLess(C26_Top, NumAbs(C26_h))

C26_Normal ==
    IF C26_CapChosen
      THEN rotate_vector(ccat(IF NumLess(C26_h, Num(0)) THEN Num(-1) ELSE Num(1),
                              Num(0), lhs.axis),
                         lhs.rotation, FALSE)
      ELSE rotate_vector(ccat(Num(0), C26_Outward, lhs.axis),
                         lhs.rotation, FALSE)

C26_DistanceAndDelta ==
    (op = "approximate_closest_surface" /\ Len(lhs.center) = 1) =>
        /\ NumMul(res.value.sgn_dist, res.value.sgn_dist)
                = C26_SquaredDistance(C26_Chosen)
        /\ C26_Inside => ~NumLess(Num(0), res.value.sgn_dist)
        /\ ~C26_Inside => NumLess(Num(0), res.value.sgn_dist)
        /\ VecAdd(rhs, res.value.delta)
                = VecAdd(lhs.center[1],
                         rotate_vector(C26_Chosen, lhs.rotation, FALSE))

C26_ClosestSurface ==
    (op = "approximate_closest_surface" /\ Len(lhs.center) = 1) =>
        /\ C26_DistanceAndDelta
        /\ res.value.normal = C26_Normal

(***************************************************************************)
(* C27.  For a Cylinder with an instance dimension,                         *)
(* approximate_closest_surface returns the signed distance, delta and       *)
(* normal of one instance: the first of the instances whose signed distance *)
(* is the least.                                                            *)
(***************************************************************************)
C27_Instance(i) ==
    Cylinder(<<lhs.center[i]>>, <<lhs.radius[i]>>, <<lhs.depth[i]>>,
             lhs.rotation, lhs.axis, lhs.variables, lhs.values)

C27_Each(i) == Cylinder_approximate_closest_surface(C27_Instance(i), rhs)

C27_InstanceArgMin ==
    (op = "approximate_closest_surface" /\ Len(lhs.center) > 1) =>
        \E i \in 1 .. Len(lhs.center) :
            /\ res.value = C27_Each(i)
            /\ \A j \in 1 .. Len(lhs.center) :
                  ~NumLess(C27_Each(j).sgn_dist, C27_Each(i).sgn_dist)
            /\ \A j \in 1 .. i - 1 :
                  C27_Each(j).sgn_dist # C27_Each(i).sgn_dist

\* two instances at the same signed distance with different normals
C27_Witness ==
    /\ op = "approximate_closest_surface"
    /\ Len(lhs.center) = 2
    /\ C27_Each(1).sgn_dist = C27_Each(2).sgn_dist
    /\ C27_Each(1).normal # C27_Each(2).normal
    /\ res.value = C27_Each(1)

(***************************************************************************)
(* C28.  Stacking geometries returns a Cylinder exactly when every one is a *)
(* Cylinder and all have the same axis.  The Cylinder has that axis and the *)
(* stacked centers, radii and depths; its rotation is None when no          *)
(* geometry is rotated and otherwise holds, per geometry, its rotation or   *)
(* the identity matrix for one without rotation.  Every other list of       *)
(* geometries is stacked by Geometry.__stack__.                             *)
(***************************************************************************)
C28_Identity == Matrix(<<<<Num(1), Num(0)>>, <<Num(0), Num(1)>>>>)

C28_AllCylinders ==
    /\ \A i \in 1 .. Len(rhs) : rhs[i].type = "Cylinder"
    /\ \A i, j \in 1 .. Len(rhs) : rhs[i].axis = rhs[j].axis

C28_Stack ==
    op = "stack" =>
        /\ res.value.type = "Cylinder" <=> C28_AllCylinders
        /\ C28_AllCylinders =>
              /\ res.value.axis = rhs[1].axis
              /\ \A i \in 1 .. Len(rhs) :
                    /\ res.value.center[i] = rhs[i].center[1]
                    /\ res.value.radius[i] = rhs[i].radius[1]
                    /\ res.value.depth[i] = rhs[i].depth[1]
              /\ Len(res.value.center) = Len(rhs)
              /\ res.value.rotation = None <=>
                    \A i \in 1 .. Len(rhs) : rhs[i].rotation = None
              /\ res.value.rotation # None =>
                    \A i \in 1 .. Len(rhs) :
                        res.value.rotation.items[i] =
                            IF rhs[i].rotation = None THEN C28_Identity
                            ELSE rhs[i].rotation
        /\ ~C28_AllCylinders => res.value = Geometry__stack__(rhs)

\* a cylinder without rotation stacked after a rotated one of the same axis
C28_Witness ==
    /\ op = "stack"
    /\ C28_AllCylinders
    /\ rhs[1].rotation = rotation_matrix(Angle(1))
    /\ rhs[2].rotation = None
    /\ res.value.type = "Cylinder"
    /\ res.value.rotation.items[2] = C28_Identity

====
